---- MODULE Spec2Model ----
(***************************************************************************)
(* The auto-sync / invalidation controller of the local Figma index         *)
(* (tools/search-tools.ts) over the per-document SQLite cache manager       *)
(* (cache/index.ts, bun:sqlite variant).                                    *)
(*                                                                          *)
(* The program is single-threaded and cooperative: a handler runs without   *)
(* interruption from one `await` of a remote round-trip to the next.  Each  *)
(* action below is one such uninterrupted run.  A tool request occupies a   *)
(* slot of `req` from its start to its return.                              *)
(*                                                                          *)
(* The remote source is the environment: what isConnected() answers (conn)  *)
(* and which document answers get_document_info (d) are inputs of the run   *)
(* that reads them, since either may change between any two runs.  The      *)
(* round-trips of one buildIndexImpl call after get_document_info are       *)
(* answered from the document that answered it, or fail.                    *)
(***************************************************************************)
EXTENDS Integers, Sequences, FiniteSets, TLC

\* ------------------------------------------------------------------ bounds
\* Number of tool requests that may be in flight at once.
MaxRequests == 2
\* The clock advances at most this many times.
MaxTicks == 2
\* A component is used at most this many times.
MaxUsage == 2
\* The longest query a search is called with, in characters.
MaxQueryLen == 2

\* ------------------------------------------------------- program constants
INDEX_STALE_THRESHOLD_MS == 5 * 60 * 1000
RETRY_LIMIT_MS == 60000
\* const limit = options?.limit || 20
DEFAULT_SEARCH_LIMIT == 20
\* Date.now() is far beyond both thresholds when the process starts.
StartTime == 10 * INDEX_STALE_THRESHOLD_MS
\* The clock advances by half the retry limit, or by that much more than the
\* staleness threshold.
TickMs == RETRY_LIMIT_MS \div 2
StaleJumpMs == INDEX_STALE_THRESHOLD_MS + TickMs
\* How many advances have brought the clock to t.
TicksUsed(t) == ((t - StartTime) \div StaleJumpMs) + (((t - StartTime) % StaleJumpMs) \div TickMs)

\* ------------------------------------------------------ the remote source
\* Document ids as character sequences; DocA and DocB differ only in a
\* character that is not filesystem-safe.
DocA == <<"a", ":">>
DocB == <<"a", "_">>
DocE == <<"e">>
DocIds == {DocA, DocB, DocE}
NoDoc == <<>>

DocName(d) == IF d = DocA THEN "Alpha" ELSE IF d = DocB THEN "Beta" ELSE "Empty"

\* docInfo.pages of each document, in document order.
RemotePages(d) ==
  IF d = DocA THEN << [id |-> "p1", name |-> "Home"], [id |-> "p2", name |-> "Lib"] >>
  ELSE IF d = DocB THEN << [id |-> "p1", name |-> "Home"] >>
  ELSE << >>

\* The nodes of each document: parent is a page id or a node id.
RemoteNodes(d) ==
  IF d = DocA THEN
    { [id |-> "n1", name |-> "Card",   type |-> "FRAME",     parent |-> "p1"],
      [id |-> "n2", name |-> "Title",  type |-> "TEXT",      parent |-> "n1"],
      [id |-> "n3", name |-> "Button", type |-> "COMPONENT", parent |-> "p2"] }
  ELSE IF d = DocB THEN
    { [id |-> "n1", name |-> "Hero",   type |-> "FRAME",     parent |-> "p1"] }
  ELSE {}

\* get_variable_collections and get_local_variables of each document.
RemoteCollections(d) ==
  IF d = DocB THEN { [id |-> "c1", name |-> "Theme"] } ELSE {}
RemoteVariables(d) ==
  IF d = DocB THEN { [id |-> "v1", name |-> "primary", collection_id |-> "c1",
                      resolved_type |-> "COLOR"] }
  ELSE {}

RemoteChildren(d, id) == { n \in RemoteNodes(d) : n.parent = id }

\* ---------------------------------------------------- cache manager: paths
SafeChars == {"a", "e", "_", "-"}
\* documentId.replace(/[^a-zA-Z0-9_-]/g, '_')
Sanitize(id) == [i \in DOMAIN id |-> IF id[i] \in SafeChars THEN id[i] ELSE "_"]
DbPathFor(id) == <<"figma-index-">> \o Sanitize(id) \o <<".db">>
DefaultDbPath == <<"figma-index.db">>
Paths == {DefaultDbPath} \cup { DbPathFor(d) : d \in DocIds }
NoDb == <<>>

\* ------------------------------------------------------------ store values
\* A sync_meta value that holds a time: no row, the empty string, or the
\* ISO string of a millisecond time.
AbsentTime == [kind |-> "absent", ms |-> 0]
EmptyTime == [kind |-> "empty", ms |-> 0]
ToISOString(t) == [kind |-> "iso", ms |-> t]
\* lastSync ? new Date(lastSync).getTime() : 0
ParseSyncTime(v) == IF v.kind = "iso" THEN v.ms ELSE 0

EmptyMeta == [last_full_sync |-> AbsentTime, index_invalidated |-> "absent",
              invalidation_reason |-> "absent", document_name |-> "absent"]
\* The schema of a database file: its tables, the columns of the variables
\* table, the tables holding seeded reference rows, and the schema_version
\* row of sync_meta.
NoSchema == [tables |-> {}, variable_columns |-> {}, reference |-> {},
             schema_version |-> "absent"]
VersionRank(v) == IF v = "absent" THEN 0 ELSE IF v = "1.0" THEN 1 ELSE 2

\* 001_initial.sql: CREATE TABLE IF NOT EXISTS for each table, and INSERT OR
\* IGNORE of schema_version '1.0'.  Every statement succeeds on any schema.
Tables001 == {"nodes", "components", "pages", "design_tokens", "variable_collections",
              "variables", "sync_meta"}
Columns001 == {"id", "name", "collection_id", "resolved_type", "daisyui_name",
               "daisyui_category", "values_by_mode", "hex", "rgb", "description", "scopes",
               "last_synced"}
Migration001(schema) ==
  [ok |-> TRUE,
   schema |-> [tables |-> schema.tables \cup Tables001,
               variable_columns |-> IF "variables" \in schema.tables
                                    THEN schema.variable_columns ELSE Columns001,
               reference |-> schema.reference,
               schema_version |-> IF schema.schema_version = "absent" THEN "1.0"
                                  ELSE schema.schema_version]]

\* 002_enhanced_variables.sql.  Its first statements are ALTER TABLE variables
\* ADD COLUMN, one per column and in this order; each is committed by itself,
\* and the script stops with an error ("duplicate column name") at the first
\* column the table already has.
AddedColumns == << "tailwind_name", "tailwind_shade", "color_system", "semantic_role",
                   "token_type", "css_variable", "tailwind_class", "is_alias",
                   "alias_target_id", "hsl", "oklch", "contrast_ratio", "usage_count",
                   "is_deprecated" >>
RECURSIVE AddColumns(_, _)
AddColumns(columns, names) ==
  IF names = << >> THEN [ok |-> TRUE, columns |-> columns]
  ELSE IF Head(names) \in columns THEN [ok |-> FALSE, columns |-> columns]
  ELSE AddColumns(columns \cup {Head(names)}, Tail(names))

\* The rest of 002: CREATE TABLE IF NOT EXISTS, INSERT OR IGNORE of the
\* reference rows, INSERT OR REPLACE of schema_version '2.0'.
Tables002 == {"variable_bindings", "variable_aliases", "variable_mode_values",
              "tailwind_colors", "daisyui_colors", "token_categories"}
Reference002 == {"token_categories", "tailwind_colors", "daisyui_colors"}
Migration002(schema) ==
  IF "variables" \notin schema.tables THEN [ok |-> FALSE, schema |-> schema]
  ELSE LET added == AddColumns(schema.variable_columns, AddedColumns)
       IN IF ~added.ok
          THEN [ok |-> FALSE, schema |-> [schema EXCEPT !.variable_columns = added.columns]]
          ELSE [ok |-> TRUE,
                schema |-> [tables |-> schema.tables \cup Tables002,
                            variable_columns |-> added.columns,
                            reference |-> schema.reference \cup Reference002,
                            schema_version |-> "2.0"]]

\* A database file as initialize() leaves it when it first opens it: empty
\* tables under the schema of 001.  The controller reads neither the
\* last_synced columns nor the components table nor the tables of 002, and
\* its specifications leave them as they are.
EmptyStore == [nodes |-> {}, pages |-> {}, collections |-> {}, variables |-> {},
               meta |-> EmptyMeta,
               node_synced |-> {},  \* nodes.last_synced, as << figma_id, timestamp >>
               components |-> {},
               schema |-> Migration001(NoSchema).schema,
               mode_values |-> {},  \* variable_mode_values, as << variable_id, mode_id >>
               bindings |-> {},     \* variable_bindings, as << node_id, variable_id >>
               nodes_fts |-> {}, components_fts |-> {}, variables_fts |-> {}]

\* One row of the nodes table (the columns the controller and the queries read).
NodeRow(node, pageId, nodePath, depth) ==
  [figma_id |-> node.id, name |-> node.name, type |-> node.type,
   parent_id |-> node.parent, page_id |-> pageId, path |-> nodePath, depth |-> depth]

PageRow(page, nodeCount, componentCount, frameCount) ==
  [id |-> page.id, name |-> page.name, node_count |-> nodeCount,
   component_count |-> componentCount, frame_count |-> frameCount]

\* --------------------------------------------------------------- variables
VARIABLES
  now,               \* Date.now()
  cache,             \* CacheManager: currentDocumentId, dbPath, db (open connection's path)
  files,             \* the database files of the cache directory, by path
  lastSyncAttempt,   \* module variable
  syncInProgress,    \* module variable: the reentrancy guard
  indexInvalidated,  \* module variable
  req,               \* the tool requests in flight, by slot
  last,              \* what the request that returned last returned
  notification,      \* the change notification last delivered to the handler
  lastFailedAttempt, \* history: when a staleness-triggered sync attempt last failed (0: never)
  pendingRestart     \* history: the document notified as changed since the last successful
                     \* sync, and whether the process has restarted since; forgotten at the
                     \* first connected ensureIndex on that document after the restart

vars == << now, cache, files, lastSyncAttempt, syncInProgress,
           indexInvalidated, req, last, notification, lastFailedAttempt, pendingRestart >>

Reqs == 1 .. MaxRequests

\* ------------------------------------------------- cache manager operations
\* The cache manager as constructed: no document, the default path, no
\* connection.  open counts the connections the process holds open and peak
\* is the largest number it ever held at once (both history).
NewCacheManager ==
  [currentDocumentId |-> NoDoc, dbPath |-> DefaultDbPath, db |-> NoDb, open |-> 0, peak |-> 0]

\* A variant of close that drops the reference without closing the connection.
CloseLeaking(c) == IF c.db # NoDb THEN [c EXCEPT !.db = NoDb] ELSE c

\* CacheManager.close
Close(c) == IF c.db # NoDb THEN [c EXCEPT !.db = NoDb, !.open = @ - 1] ELSE c

\* A variant of setDocumentId that keeps the open connection when the
\* document changes.
SetDocumentIdKeepingConnection(c, documentId) ==
  IF c.currentDocumentId = documentId /\ c.db # NoDb THEN c
  ELSE [c EXCEPT !.currentDocumentId = documentId, !.dbPath = DbPathFor(documentId)]

\* CacheManager.setDocumentId
SetDocumentId(c, documentId) ==
  IF c.currentDocumentId = documentId /\ c.db # NoDb THEN c
  ELSE LET c1 == IF c.db # NoDb /\ c.currentDocumentId # documentId THEN Close(c) ELSE c
       IN [c1 EXCEPT !.currentDocumentId = documentId, !.dbPath = DbPathFor(documentId)]

\* CacheManager.initialize (and getDb): opens the file at dbPath unless a
\* connection is open.
Initialize(c) ==
  IF c.db # NoDb THEN c
  ELSE [c EXCEPT !.db = c.dbPath, !.open = @ + 1,
                 !.peak = IF c.open + 1 > @ THEN c.open + 1 ELSE @]

\* The store behind the connection getDb() returns.
Db(c) == Initialize(c).db

GetMeta(f, c, key) == f[Db(c)].meta[key]
SetMeta(f, c, key, value) == [f EXCEPT ![Db(c)].meta[key] = value]

\* CacheManager.getStats().node_count
NodeCount(f, c) == Cardinality(f[Db(c)].nodes)

\* The entry of a full-text index for a row of its table: the row's rowid
\* (here the row's unique key) and its indexed columns.
NodeFts(n) == [rowid |-> n.figma_id, name |-> n.name, path |-> n.path]
ComponentFts(x) == [rowid |-> x.key, name |-> x.name]
VariableFts(v) == [rowid |-> v.id, name |-> v.name]

\* The entry of a row of the named table in the table's full-text index.
FtsEntry(table, x) ==
  CASE table = "nodes" -> NodeFts(x)
    [] table = "components" -> ComponentFts(x)
    [] table = "variables" -> VariableFts(x)

\* The triggers of a table with a full-text index, for one statement: the
\* delete and update triggers issue 'delete' with the old values of each row
\* deleted or updated, the insert and update triggers insert the new values
\* of each row inserted or updated.
Triggers(fts, old, new, table) ==
  (fts \ { FtsEntry(table, x) : x \in old }) \cup { FtsEntry(table, x) : x \in new }

\* The 'delete' a trigger issues for a row whose entry the index does not
\* hold is outside what the index supports: the statement may throw (database
\* disk image is malformed) and change nothing, or go on.
DeleteOutcomes(fts, old, table) ==
  IF { FtsEntry(table, x) : x \in old } \subseteq fts THEN {"done"} ELSE {"done", "throws"}

\* CacheManager.clearAll
\* FOREIGN KEY (variable_id) REFERENCES variables(id) ON DELETE CASCADE, with
\* PRAGMA foreign_keys = ON: what a delete from variables leaves of the
\* tables that reference it.
Cascade(store) ==
  [store EXCEPT !.mode_values = { x \in @ : \E v \in store.variables : v.id = x[1] },
                !.bindings = { x \in @ : \E v \in store.variables : v.id = x[2] }]

\* A clearAll under which the rows referencing a variable outlive it.
ClearAllKeepingChildren(f, c) ==
  [f EXCEPT ![Db(c)] = [@ EXCEPT !.nodes = {}, !.pages = {}, !.collections = {},
                                 !.variables = {}, !.node_synced = {}, !.components = {},
                                 !.meta.last_full_sync = EmptyTime]]

\* A clearAll that leaves last_full_sync as it is.
ClearAllKeepingLastSync(f, c) ==
  [f EXCEPT ![Db(c)] = Cascade([@ EXCEPT !.nodes = {}, !.pages = {}, !.collections = {},
                                         !.variables = {}, !.node_synced = {},
                                         !.components = {}])]

ClearAll(f, c) ==
  LET store == f[Db(c)]
  IN [f EXCEPT ![Db(c)] =
        Cascade([@ EXCEPT !.nodes = {}, !.pages = {}, !.collections = {},
                          !.variables = {}, !.node_synced = {},
                          !.components = {},
                          !.nodes_fts = Triggers(@, store.nodes, {}, "nodes"),
                          !.components_fts = Triggers(@, store.components, {}, "components"),
                          !.variables_fts = Triggers(@, store.variables, {}, "variables"),
                          !.meta.last_full_sync = EmptyTime])]

\* CacheManager.upsertPage: insert, or overwrite the row with the same id.
UpsertPage(f, c, row) ==
  [f EXCEPT ![Db(c)].pages = { p \in @ : p.id # row.id } \cup {row}]

\* FOREIGN KEY (page_id) REFERENCES pages(id), with PRAGMA foreign_keys = ON.
ForeignKeyOk(f, c, rows) ==
  \A n \in rows : \E p \in f[Db(c)].pages : p.id = n.page_id

\* A variant of the ingestion that replaces the rows of the pages it writes.
UpsertNodesPruning(f, c, rows) ==
  [f EXCEPT ![Db(c)].nodes =
     { n \in @ : \A m \in rows : m.page_id # n.page_id } \cup rows]

\* CacheManager.upsertNode for each row: ON CONFLICT(figma_id) DO UPDATE.
UpsertNodes(f, c, rows) ==
  LET updated == { n \in f[Db(c)].nodes : \E m \in rows : m.figma_id = n.figma_id }
  IN [f EXCEPT ![Db(c)].nodes = (@ \ updated) \cup rows,
               ![Db(c)].nodes_fts = Triggers(@, updated, rows, "nodes")]

\* CURRENT_TIMESTAMP: the time to the second.
CurrentTimestamp(t) == t \div 1000

\* A variant of upsertNode that keeps the row a figma_id already has (INSERT
\* OR IGNORE).
UpsertNodeKeepingFirst(f, c, row, t) ==
  IF \E n \in f[Db(c)].nodes : n.figma_id = row.figma_id THEN f
  ELSE [f EXCEPT ![Db(c)].nodes = @ \cup {row},
                 ![Db(c)].node_synced = @ \cup { << row.figma_id, CurrentTimestamp(t) >> }]

\* CacheManager.upsertNode at time t, with the last_synced column: insert, or
\* on a conflict of figma_id overwrite every column and refresh last_synced.
UpsertNode(f, c, row, t) ==
  [f EXCEPT ![Db(c)].nodes = { n \in @ : n.figma_id # row.figma_id } \cup {row},
            ![Db(c)].node_synced = { x \in @ : x[1] # row.figma_id }
                                   \cup { << row.figma_id, CurrentTimestamp(t) >> },
            ![Db(c)].nodes_fts =
               Triggers(@, { n \in f[Db(c)].nodes : n.figma_id = row.figma_id }, {row},
                        "nodes")]

\* One row of the components table: usage_count is not among the columns
\* upsertComponent names.
ComponentRow(key, name, usageCount) == [key |-> key, name |-> name, usage_count |-> usageCount]

\* A variant of upsertComponent that replaces the row (INSERT OR REPLACE), so
\* that usage_count falls back to its default.
UpsertComponentReplacing(f, c, key, name) ==
  [f EXCEPT ![Db(c)].components = { x \in @ : x.key # key } \cup {ComponentRow(key, name, 0)}]

\* CacheManager.upsertComponent: insert with usage_count at its default 0, or
\* on a conflict of key overwrite the named columns.
UpsertComponent(f, c, key, name) ==
  LET updated == { x \in f[Db(c)].components : x.key = key }
      written == IF updated # {} THEN { [x EXCEPT !.name = name] : x \in updated }
                 ELSE {ComponentRow(key, name, 0)}
  IN [f EXCEPT ![Db(c)].components = (@ \ updated) \cup written,
               ![Db(c)].components_fts = Triggers(@, updated, written, "components")]

\* CacheManager.incrementComponentUsage
IncrementComponentUsage(f, c, key) ==
  LET updated == { x \in f[Db(c)].components : x.key = key }
      written == { [x EXCEPT !.usage_count = @ + 1] : x \in updated }
  IN [f EXCEPT ![Db(c)].components = (@ \ updated) \cup written,
               ![Db(c)].components_fts = Triggers(@, updated, written, "components")]

\* CacheManager.upsertVariableCollection / upsertVariable for each row.
UpsertCollections(f, c, rows) ==
  [f EXCEPT ![Db(c)].collections =
     { x \in @ : \A m \in rows : m.id # x.id } \cup rows]
UpsertVariables(f, c, rows) ==
  LET updated == { x \in f[Db(c)].variables : \E m \in rows : m.id = x.id }
  IN [f EXCEPT ![Db(c)].variables = (@ \ updated) \cup rows,
               ![Db(c)].variables_fts = Triggers(@, updated, rows, "variables")]

\* FOREIGN KEY (collection_id) REFERENCES variable_collections(id)
CollectionKeyOk(f, c, rows) ==
  \A v \in rows : \E k \in f[Db(c)].collections : k.id = v.collection_id

Min(a, b) == IF a < b THEN a ELSE b

\* CacheManager.getNodesByType(type, pageId).length, with its default LIMIT 100.
CountByType(f, c, type, pageId) ==
  Min(Cardinality({ n \in f[Db(c)].nodes : n.type = type /\ n.page_id = pageId }), 100)

\* ------------------------------------------------------------ tool requests
NoFilter == [given |-> FALSE, names |-> {}]

\* A returned result: ready (ensureIndex), success (build_index) or is_ready
\* (index_status) as ok, autoBuilt, the message or error, nodesIndexed; and
\* whether the remote source was connected when the request returned.
NoResult == [kind |-> "none", ok |-> FALSE, autoBuilt |-> FALSE, message |-> "none",
             nodesIndexed |-> 0, connected |-> FALSE]
\* A request slot: the tool, the position, the options and locals of
\* buildIndexImpl (force, filter, doc, left, totalNodes), the locals of
\* ensureIndex (hasNodes, syncReason), and the database ensureIndex read them
\* from (decidedDb, history).
IdleSlot == [kind |-> "none", pc |-> "idle", force |-> FALSE, filter |-> NoFilter,
             doc |-> NoDoc, left |-> << >>, hasNodes |-> FALSE, syncReason |-> "none",
             totalNodes |-> 0, decidedDb |-> NoDb]

\* The positions of a request inside buildIndexImpl: each awaits one remote
\* round-trip (document info, a page's subtree, the collections, the variables).
BuildPcs == {"b_docinfo", "b_page", "b_coll", "b_vars"}

NoNotification == [changeType |-> "none", nodeCreations |-> 0, nodeDeletions |-> 0,
                   propertyChanges |-> 0]
NoPending == [doc |-> NoDoc, restarted |-> FALSE]

\* The state after construction: an empty cache directory, the module
\* variables at their initial values.
Init ==
  /\ now = StartTime
  /\ cache = NewCacheManager
  /\ files = [p \in Paths |-> EmptyStore]
  /\ lastSyncAttempt = 0
  /\ syncInProgress = FALSE
  /\ indexInvalidated = FALSE
  /\ req = [r \in Reqs |-> IdleSlot]
  /\ last = NoResult
  /\ notification = NoNotification
  /\ lastFailedAttempt = 0
  /\ pendingRestart = NoPending

\* The result a request returns.
Result(kind, ok, autoBuilt, message, nodesIndexed, conn) ==
  [kind |-> kind, ok |-> ok, autoBuilt |-> autoBuilt, message |-> message,
   nodesIndexed |-> nodesIndexed, connected |-> conn]

\* Request r returns: its slot is free again.
Return(r, result) ==
  /\ req' = [req EXCEPT ![r] = IdleSlot]
  /\ last' = result

\* A new request takes the first free slot.
FirstFree(r) ==
  /\ req[r].pc = "idle"
  /\ \A q \in Reqs : q < r => req[q].pc # "idle"

\* ------------------------------------------------------------ ensureIndex
\* A variant of shouldSync in which the retry limit also holds back a sync
\* that an invalidation asks for.
ShouldSyncAllLimited(hasNodes, wasInvalidated, isStale, t, lastAttempt) ==
  \/ ~hasNodes
  \/ ((wasInvalidated \/ isStale) /\ (t - lastAttempt) > RETRY_LIMIT_MS)

\* A variant of shouldSync in which a stale index is synced only inside the
\* retry limit.
ShouldSyncWithinLimit(hasNodes, wasInvalidated, isStale, t, lastAttempt) ==
  \/ ~hasNodes
  \/ wasInvalidated
  \/ (isStale /\ (t - lastAttempt) < RETRY_LIMIT_MS)

\* A variant of shouldSync that asks for a sync on every call.
ShouldSyncAlways(hasNodes, wasInvalidated, isStale, t, lastAttempt) == TRUE

\* A variant of shouldSync without the retry limit.
ShouldSyncUnlimited(hasNodes, wasInvalidated, isStale, t, lastAttempt) ==
  ~hasNodes \/ wasInvalidated \/ isStale

\* shouldSync of ensureIndex.
ShouldSync(hasNodes, wasInvalidated, isStale, t, lastAttempt) ==
  \/ ~hasNodes
  \/ wasInvalidated
  \/ (isStale /\ (t - lastAttempt) > RETRY_LIMIT_MS)

\* A variant of hasNodes that also takes a store with a recorded full sync
\* for an index with nodes.
HasNodesOrSynced(f, c) ==
  NodeCount(f, c) > 0 \/ GetMeta(f, c, "last_full_sync").kind = "iso"

\* What ensureIndex reads from the store behind cache c.
HasNodes(f, c) == NodeCount(f, c) > 0
WasInvalidated(f, c, flag) == flag \/ GetMeta(f, c, "index_invalidated") = "true"
IsStale(f, c, t) == (t - ParseSyncTime(GetMeta(f, c, "last_full_sync"))) > INDEX_STALE_THRESHOLD_MS

SyncReason(hasNodes, wasInvalidated) ==
  IF wasInvalidated THEN "document changes detected"
  ELSE IF ~hasNodes THEN "empty index" ELSE "stale index"

\* ensureIndex from cache.initialize() on, with c1 the cache manager after the
\* document switch (if any): serve from the index, give up for want of a
\* connection, or take the guard and call buildIndexImpl, which runs up to its
\* first await.
EnsureDecide(r, c1, conn) ==
  LET c2 == Initialize(c1)
      hasNodes == HasNodes(files, c2)
      wasInvalidated == WasInvalidated(files, c2, indexInvalidated)
      isStale == IsStale(files, c2, now)
      shouldSync == ShouldSync(hasNodes, wasInvalidated, isStale, now, lastSyncAttempt)
  IN /\ cache' = c2
     /\ IF ~shouldSync /\ hasNodes
          THEN /\ Return(r, Result("ensure", TRUE, FALSE, "none", 0, conn))
               /\ UNCHANGED syncInProgress
        ELSE IF ~conn
          THEN /\ Return(r, Result("ensure", hasNodes, FALSE,
                                   IF hasNodes THEN "Using cached index (not connected to Figma)"
                                   ELSE "Not connected to Figma. Use join_channel first.",
                                   0, conn))
               /\ UNCHANGED syncInProgress
        ELSE /\ syncInProgress' = TRUE
             /\ req' = [req EXCEPT ![r] = [IdleSlot EXCEPT !.kind = "ensure", !.pc = "b_docinfo",
                                             !.hasNodes = hasNodes, !.decidedDb = c2.db,
                                             !.syncReason = SyncReason(hasNodes, wasInvalidated)]]
             /\ UNCHANGED last
     /\ pendingRestart' =
          IF conn /\ pendingRestart.restarted /\ pendingRestart.doc = c2.currentDocumentId
          THEN NoPending ELSE pendingRestart
     /\ UNCHANGED << now, files, lastSyncAttempt, indexInvalidated, notification,
                     lastFailedAttempt >>

\* ensureIndex is called (by any query tool): the guard check, then the
\* document-info round-trip if connected.
EnsureStart(r, conn) ==
  /\ FirstFree(r)
  /\ IF syncInProgress
       THEN /\ Return(r, Result("ensure", FALSE, FALSE, "Sync already in progress", 0, conn))
            /\ UNCHANGED << now, cache, files, lastSyncAttempt, syncInProgress,
                            indexInvalidated, notification, lastFailedAttempt, pendingRestart >>
     ELSE IF conn
       THEN /\ req' = [req EXCEPT ![r] = [IdleSlot EXCEPT !.kind = "ensure", !.pc = "e_docinfo"]]
            /\ UNCHANGED << now, cache, files, lastSyncAttempt, syncInProgress,
                            indexInvalidated, last, notification, lastFailedAttempt,
                            pendingRestart >>
     ELSE EnsureDecide(r, cache, FALSE)

\* get_document_info answers ensureIndex with document d.
EnsureDocInfo(r, d) ==
  /\ req[r].kind = "ensure" /\ req[r].pc = "e_docinfo"
  /\ EnsureDecide(r, SetDocumentId(cache, d), TRUE)

\* get_document_info fails: ensureIndex continues with the current database.
EnsureDocInfoFails(r, conn) ==
  /\ req[r].kind = "ensure" /\ req[r].pc = "e_docinfo"
  /\ EnsureDecide(r, cache, conn)

\* ---------------------------------------------------------- buildIndexImpl
\* targetPages: docInfo.pages, filtered by name when `pages` is given.
TargetPages(d, filter) ==
  IF filter.given THEN SelectSeq(RemotePages(d), LAMBDA p : p.name \in filter.names)
  ELSE RemotePages(d)

\* indexNode: the row of a node and of every node below it.
RECURSIVE IndexNode(_, _, _, _, _)
IndexNode(d, node, pageId, parentPath, depth) ==
  LET nodePath == IF parentPath # << >> THEN parentPath \o << "/", node.name >>
                  ELSE << node.name >>
  IN {NodeRow(node, pageId, nodePath, depth)} \cup
     UNION { IndexNode(d, child, pageId, nodePath, depth + 1) :
             child \in RemoteChildren(d, node.id) }

\* A variant of the walk that stops at the page's children.
PageRowsTopLevel(d, page) ==
  { NodeRow(child, page.id, << page.name, "/", child.name >>, 1) :
      child \in RemoteChildren(d, page.id) }

\* A variant of the walk that starts indexNode with its default arguments:
\* no parent path, depth 0.
PageRowsFromDefaults(d, page) ==
  UNION { IndexNode(d, child, page.id, << >>, 0) :
          child \in RemoteChildren(d, page.id) }

\* The rows indexNode writes for a page: its children start at depth 1
\* below the page's name.
PageRows(d, page) ==
  UNION { IndexNode(d, child, page.id, << page.name >>, 1) :
          child \in RemoteChildren(d, page.id) }

\* A variant of the sync that writes no Page row before the page's nodes.
PlaceholderPageSkipped(f, c, page) == f

\* The Page row written before the page's nodes, and the one written after.
PlaceholderPage(f, c, page) == UpsertPage(f, c, PageRow(page, 0, 0, 0))
\* A variant of the walk that leaves the count update of a page to a later
\* turn.
CountedPageDeferred(f, c, page) == f

CountedPage(f, c, page) ==
  UpsertPage(f, c, PageRow(page, CountByType(f, c, "FRAME", page.id),
                           CountByType(f, c, "COMPONENT", page.id),
                           CountByType(f, c, "FRAME", page.id)))

\* A variant of the failure path that clears the invalidation in memory, as
\* the success path does.
SyncFailedClearing(r, c, f, message) ==
  /\ files' = f
  /\ cache' = c
  /\ syncInProgress' = FALSE
  /\ indexInvalidated' = FALSE
  /\ Return(r, Result(req[r].kind, req[r].hasNodes, FALSE, message, 0, TRUE))
  /\ UNCHANGED << now, lastSyncAttempt, lastFailedAttempt, notification, pendingRestart >>

\* A variant of the failure path that returns without releasing the guard.
SyncFailedHolding(r, c, f, message) ==
  /\ files' = f
  /\ cache' = c
  /\ Return(r, Result(req[r].kind, req[r].hasNodes, FALSE, message, 0, TRUE))
  /\ UNCHANGED << now, lastSyncAttempt, syncInProgress, indexInvalidated, lastFailedAttempt,
                  notification, pendingRestart >>

\* A variant of the failure path that rolls the store back by emptying it.
SyncFailedRollingBack(r, c, f, message) ==
  /\ files' = ClearAll(f, Initialize(c))
  /\ IF req[r].kind = "ensure"
       THEN /\ cache' = c
            /\ syncInProgress' = FALSE
            /\ Return(r, Result("ensure", req[r].hasNodes, FALSE, message, 0, TRUE))
            /\ lastFailedAttempt' = IF req[r].syncReason = "stale index" THEN now
                                    ELSE lastFailedAttempt
       ELSE /\ cache' = Initialize(c)
            /\ Return(r, Result("build", FALSE, FALSE, message, 0, TRUE))
            /\ UNCHANGED << syncInProgress, lastFailedAttempt >>
  /\ UNCHANGED << now, lastSyncAttempt, indexInvalidated, notification, pendingRestart >>

\* buildIndexImpl returns a failure to its caller, which returns: ensureIndex
\* releases the guard and reports the error; build_index reads the stats.
SyncFailed(r, c, f, message) ==
  /\ files' = f
  /\ IF req[r].kind = "ensure"
       THEN /\ cache' = c
            /\ syncInProgress' = FALSE
            /\ Return(r, Result("ensure", req[r].hasNodes, FALSE, message, 0, TRUE))
            /\ lastFailedAttempt' = IF req[r].syncReason = "stale index" THEN now
                                    ELSE lastFailedAttempt
       ELSE /\ cache' = Initialize(c)
            /\ Return(r, Result("build", FALSE, FALSE, message, 0, TRUE))
            /\ UNCHANGED << syncInProgress, lastFailedAttempt >>
  /\ UNCHANGED << now, lastSyncAttempt, indexInvalidated, notification, pendingRestart >>

\* A variant of the success path of buildIndexImpl that also clears the
\* persisted invalidation flag.
RecordSyncClearingFlag(f, c, t, d) ==
  SetMeta(SetMeta(SetMeta(f, c, "last_full_sync", ToISOString(t)), c, "document_name",
                  DocName(d)), c, "index_invalidated", "false")

\* The sync metadata buildIndexImpl writes on success.
RecordSync(f, c, t, d) ==
  SetMeta(SetMeta(f, c, "last_full_sync", ToISOString(t)), c, "document_name", DocName(d))

\* A variant of the success path that leaves the persisted flags as they are.
ClearInvalidationSkipped(f, c) == f

\* The invalidation flags ensureIndex clears after a successful sync.
ClearInvalidation(f, c) ==
  SetMeta(SetMeta(f, c, "index_invalidated", "false"), c, "invalidation_reason", "empty")

\* buildIndexImpl returns success to its caller, which returns.
SyncSucceeded(r, f) ==
  LET c == Initialize(cache)
      f1 == RecordSync(f, c, now, req[r].doc)
  IN /\ cache' = c
     /\ lastSyncAttempt' = now
     /\ pendingRestart' = NoPending
     /\ IF req[r].kind = "ensure"
          THEN /\ syncInProgress' = FALSE
               /\ indexInvalidated' = FALSE
               /\ files' = ClearInvalidation(f1, c)
               /\ Return(r, Result("ensure", TRUE, TRUE, "Auto-indexed",
                                   req[r].totalNodes, TRUE))
          ELSE /\ files' = f1
               /\ Return(r, Result("build", TRUE, FALSE, "none", req[r].totalNodes, TRUE))
               /\ UNCHANGED << syncInProgress, indexInvalidated >>
     /\ UNCHANGED << now, notification, lastFailedAttempt >>

\* The build_index tool is called: buildIndexImpl up to its first await.
BuildStart(r, force, filter, conn) ==
  /\ FirstFree(r)
  /\ IF conn
       THEN /\ req' = [req EXCEPT ![r] = [IdleSlot EXCEPT !.kind = "build", !.pc = "b_docinfo",
                                            !.force = force, !.filter = filter]]
            /\ UNCHANGED << cache, last >>
       ELSE /\ cache' = Initialize(cache)
            /\ Return(r, Result("build", FALSE, FALSE, "Not connected to Figma", 0, FALSE))
  /\ UNCHANGED << now, files, lastSyncAttempt, syncInProgress, indexInvalidated,
                  notification, lastFailedAttempt, pendingRestart >>

\* get_document_info answers buildIndexImpl with document d: switch the
\* database, clear it on forceRebuild, and await the first page (or, with no
\* page to fetch, the variable collections).
BuildDocInfo(r, d) ==
  /\ req[r].pc = "b_docinfo"
  /\ LET c1 == Initialize(SetDocumentId(cache, d))
         left == TargetPages(d, req[r].filter)
     IN /\ cache' = c1
        /\ files' = IF req[r].force THEN ClearAll(files, c1) ELSE files
        /\ req' = [req EXCEPT ![r].doc = d, ![r].left = left,
                              ![r].pc = IF left = << >> THEN "b_coll" ELSE "b_page"]
  /\ UNCHANGED << now, lastSyncAttempt, syncInProgress, indexInvalidated, last,
                  notification, lastFailedAttempt, pendingRestart >>

\* A round-trip of the node phase (document info or a page) fails.
BuildFetchFails(r) ==
  /\ req[r].pc \in {"b_docinfo", "b_page"}
  /\ SyncFailed(r, cache, files, "timeout")

\* detectDaisyUIComponent(node.name, parent's name): some pattern matches
\* one of the two names (button, card and hero are patterns).
DaisyPatterns == {"Button", "Card", "Hero"}
DetectDaisyUIComponent(name, parentName) ==
  name \in DaisyPatterns \/ parentName \in DaisyPatterns

\* The rows indexNode also writes as components: type COMPONENT with a
\* DaisyUI mapping, under the node's id as key.
IndexedComponents(rows) ==
  { n \in rows : /\ n.type = "COMPONENT"
                 /\ DetectDaisyUIComponent(n.name, n.path[Len(n.path) - 2]) }

\* CacheManager.upsertComponent for each of the rows.
RECURSIVE UpsertComponents(_, _, _)
UpsertComponents(f, c, rows) ==
  IF rows = {} THEN f
  ELSE LET n == CHOOSE n \in rows : TRUE
       IN UpsertComponents(UpsertComponent(f, c, n.figma_id, n.name), c, rows \ {n})

\* get_node_info answers with the next page's subtree: the placeholder Page
\* row, the page's Node rows and components, the Page row with its counts.
BuildPage(r) ==
  /\ req[r].pc = "b_page"
  /\ LET page == Head(req[r].left)
         c == Initialize(cache)
         rows == PageRows(req[r].doc, page)
         f1 == PlaceholderPage(files, c, page)
     IN IF ForeignKeyOk(f1, c, rows)
        THEN /\ cache' = c
             /\ files' = CountedPage(UpsertComponents(UpsertNodes(f1, c, rows), c,
                                                       IndexedComponents(rows)),
                                      c, page)
             /\ req' = [req EXCEPT ![r].left = Tail(@),
                                   ![r].totalNodes = @ + Cardinality(rows),
                                   ![r].pc = IF Tail(req[r].left) = << >> THEN "b_coll"
                                             ELSE "b_page"]
             /\ UNCHANGED << now, lastSyncAttempt, syncInProgress, indexInvalidated, last,
                             notification, lastFailedAttempt, pendingRestart >>
        ELSE SyncFailed(r, c, f1, "FOREIGN KEY constraint failed")

\* get_variable_collections answers.
BuildCollections(r) ==
  /\ req[r].pc = "b_coll"
  /\ cache' = Initialize(cache)
  /\ files' = UpsertCollections(files, cache, RemoteCollections(req[r].doc))
  /\ req' = [req EXCEPT ![r].pc = "b_vars"]
  /\ UNCHANGED << now, lastSyncAttempt, syncInProgress, indexInvalidated, last,
                  notification, lastFailedAttempt, pendingRestart >>

\* get_local_variables answers: the last writes of the sync; a refused
\* write is logged and the sync goes on.
BuildVariables(r) ==
  /\ req[r].pc = "b_vars"
  /\ LET rows == RemoteVariables(req[r].doc)
     IN SyncSucceeded(r, IF CollectionKeyOk(files, cache, rows)
                         THEN UpsertVariables(files, cache, rows) ELSE files)

\* A variant in which a failure of the variable phase fails the sync.
BuildVariablePhaseAborts(r) ==
  /\ req[r].pc \in {"b_coll", "b_vars"}
  /\ SyncFailed(r, cache, files, "timeout")

\* A round-trip of the variable phase fails: logged, the sync goes on.
BuildVariablePhaseFails(r) ==
  /\ req[r].pc \in {"b_coll", "b_vars"}
  /\ SyncSucceeded(r, files)

\* ------------------------------------------------------------ index_status
StatusStart(r, conn) ==
  /\ FirstFree(r)
  /\ IF conn
       THEN /\ req' = [req EXCEPT ![r] = [IdleSlot EXCEPT !.kind = "status", !.pc = "s_docinfo"]]
            /\ UNCHANGED << cache, last >>
       ELSE /\ cache' = Initialize(cache)
            /\ Return(r, Result("status", HasNodes(files, cache), FALSE, "none", 0, FALSE))
  /\ UNCHANGED << now, files, lastSyncAttempt, syncInProgress, indexInvalidated,
                  notification, lastFailedAttempt, pendingRestart >>

\* get_document_info answers index_status with document d, or fails.
StatusDocInfo(r, ok, d) ==
  /\ req[r].kind = "status" /\ req[r].pc = "s_docinfo"
  /\ LET c1 == Initialize(IF ok THEN SetDocumentId(cache, d) ELSE cache)
     IN /\ cache' = c1
        /\ Return(r, Result("status", HasNodes(files, c1), FALSE, "none", 0, ok))
  /\ UNCHANGED << now, files, lastSyncAttempt, syncInProgress, indexInvalidated,
                  notification, lastFailedAttempt, pendingRestart >>

\* ------------------------------------------------------ change notifications
ChangeTypes == {"document_change", "selection_change", "page_change"}
\* The largest count a notification carries.
MaxChanges == 7
Notifications ==
  [changeType : ChangeTypes, nodeCreations : 0 .. 1, nodeDeletions : 0 .. 1,
   propertyChanges : 0 .. MaxChanges]

\* A variant of the handler's condition that counts five property changes
\* as enough.
ShouldInvalidateFromFive(n) ==
  /\ n.changeType = "document_change"
  /\ (n.nodeCreations > 0 \/ n.nodeDeletions > 0 \/ n.propertyChanges >= 5)

\* The condition of the handler registered with onChangeNotification
\* (a count of 0 is falsy).
ShouldInvalidate(n) ==
  /\ n.changeType = "document_change"
  /\ \/ (n.nodeCreations # 0 /\ n.nodeCreations > 0)
     \/ (n.nodeDeletions # 0 /\ n.nodeDeletions > 0)
     \/ (n.propertyChanges # 0 /\ n.propertyChanges > 5)

\* The handler runs on notification n, sent about document d.
OnChangeNotification(n, d) ==
  /\ IF ShouldInvalidate(n)
       THEN /\ indexInvalidated' = TRUE
            /\ cache' = Initialize(cache)
            /\ files' = SetMeta(SetMeta(files, cache, "index_invalidated", "true"),
                                cache, "invalidation_reason", "document_change")
            /\ pendingRestart' = [doc |-> d, restarted |-> FALSE]
       ELSE UNCHANGED << indexInvalidated, cache, files, pendingRestart >>
  /\ UNCHANGED << now, lastSyncAttempt, syncInProgress, req, last, lastFailedAttempt >>

\* A structural change of document d is notified.
StructuralChange ==
  [changeType |-> "document_change", nodeCreations |-> 1, nodeDeletions |-> 0,
   propertyChanges |-> 0]
ChangeNotification(d) ==
  /\ OnChangeNotification(StructuralChange, d)
  /\ UNCHANGED notification

\* Notification n about document d is delivered, and remembered.
Deliver(n, d) ==
  /\ OnChangeNotification(n, d)
  /\ notification' = n

\* -------------------------------------------------------------- environment
\* Time passes.
Tick(dt) ==
  /\ TicksUsed(now) < MaxTicks
  /\ now' = now + dt
  /\ UNCHANGED << cache, files, lastSyncAttempt, syncInProgress, indexInvalidated, req,
                  last, notification, lastFailedAttempt, pendingRestart >>

\* The process is stopped and started again: the module variables and the
\* cache manager are constructed anew, the database files remain.
Restart ==
  /\ cache' = NewCacheManager
  /\ lastSyncAttempt' = 0
  /\ syncInProgress' = FALSE
  /\ indexInvalidated' = FALSE
  /\ req' = [r \in Reqs |-> IdleSlot]
  /\ last' = NoResult
  /\ notification' = NoNotification
  /\ lastFailedAttempt' = 0
  /\ pendingRestart' = IF pendingRestart.doc # NoDoc
                       THEN [pendingRestart EXCEPT !.restarted = TRUE]
                       ELSE pendingRestart
  /\ UNCHANGED << now, files >>

\* ----------------------------------------------------------- storage errors
\* The store throws (the file cannot be opened, a statement fails).  What a
\* handler returns when it catches the exception, and the outcome when it
\* has no catch and the exception leaves the handler.
CaughtError(kind, message, conn) == Result(kind, FALSE, FALSE, message, 0, conn)
Uncaught(kind, conn) == Result(kind, FALSE, FALSE, "uncaught", 0, conn)

\* search: cache.initialize() or getStats() throws in ensureIndex after the
\* document-info round-trip answered with d; ensureIndex has no catch there,
\* the handler's catch answers.
EnsureStorageFails(r, d) ==
  /\ req[r].kind = "ensure" /\ req[r].pc = "e_docinfo"
  /\ cache' = SetDocumentId(cache, d)
  /\ Return(r, CaughtError("ensure", "Error searching", TRUE))
  /\ UNCHANGED << now, files, lastSyncAttempt, syncInProgress, indexInvalidated,
                  notification, lastFailedAttempt, pendingRestart >>

\* index_status: the same, caught by the handler's outer catch.
StatusStorageFails(r, d) ==
  /\ req[r].kind = "status" /\ req[r].pc = "s_docinfo"
  /\ cache' = SetDocumentId(cache, d)
  /\ Return(r, CaughtError("status", "Error getting index status", TRUE))
  /\ UNCHANGED << now, files, lastSyncAttempt, syncInProgress, indexInvalidated,
                  notification, lastFailedAttempt, pendingRestart >>

\* A write of the node phase throws: buildIndexImpl's catch turns it into a
\* failure.
BuildWriteFails(r) ==
  /\ req[r].pc = "b_page"
  /\ SyncFailed(r, Initialize(cache), files, "disk I/O error")

\* build_index: buildIndexImpl has returned a failure (not connected, or a
\* fetch failed) and cache.getStats(), which follows it outside any try,
\* throws.
BuildStatsThrows(r, conn) ==
  /\ IF conn THEN req[r].kind = "build" /\ req[r].pc \in {"b_docinfo", "b_page"}
             ELSE FirstFree(r)
  /\ Return(r, Uncaught("build", conn))
  /\ UNCHANGED << now, cache, files, lastSyncAttempt, syncInProgress, indexInvalidated,
                  notification, lastFailedAttempt, pendingRestart >>

\* ------------------------------------------------- calls of the store layer
\* The cache manager's methods called one at a time, by ingestion or by any
\* other consumer.  last records the call that returned last: the method,
\* whether it returned (or threw), its argument and the time.
CallResult(kind, ok, arg) == [kind |-> kind, ok |-> ok, arg |-> arg, at |-> now]

ControllerUnchanged ==
  UNCHANGED << now, lastSyncAttempt, syncInProgress, indexInvalidated, req, notification,
               lastFailedAttempt, pendingRestart >>

\* The rows and keys the calls take their arguments from; page p9 is never
\* written.
StorePages == { [id |-> "p1", name |-> "Home"] }
StoreNodeRows ==
  { NodeRow([id |-> i, name |-> n, type |-> "FRAME", parent |-> pg], pg, << n >>, 1) :
      i \in {"n1", "n2"}, n \in {"Card", "Hero"}, pg \in {"p1", "p9"} }
StoreComponentKeys == {"k1", "k2"}
StoreComponentNames == {"Button", "Badge"}

CallUpsertPage(page) ==
  /\ cache' = Initialize(cache)
  /\ files' = UpsertPage(files, cache, PageRow(page, 0, 0, 0))
  /\ last' = CallResult("upsertPage", TRUE, page.id)
  /\ ControllerUnchanged

\* upsertNode: the statement throws when the row's page_id references no Page
\* row, and then changes nothing.
CallUpsertNode(row) ==
  /\ cache' = Initialize(cache)
  /\ IF ForeignKeyOk(files, cache, {row})
       THEN /\ files' = UpsertNode(files, cache, row, now)
            /\ last' = CallResult("upsertNode", TRUE, row)
       ELSE /\ files' = files
            /\ last' = CallResult("upsertNode", FALSE, row)
  /\ ControllerUnchanged

CallUpsertComponent(key, name) ==
  /\ cache' = Initialize(cache)
  /\ files' = UpsertComponent(files, cache, key, name)
  /\ last' = CallResult("upsertComponent", TRUE, key)
  /\ ControllerUnchanged

CallIncrementComponentUsage(key) ==
  /\ \A x \in files[Db(cache)].components : x.key = key => x.usage_count < MaxUsage
  /\ cache' = Initialize(cache)
  /\ files' = IncrementComponentUsage(files, cache, key)
  /\ last' = CallResult("incrementComponentUsage", TRUE, key)
  /\ ControllerUnchanged

\* clearAll when its DELETE FROM variables throws: the statements before it
\* have deleted the nodes, components and pages, those after it are not run.
ClearAllThrowing(f, c) ==
  LET store == f[Db(c)]
  IN [f EXCEPT ![Db(c)] =
        [@ EXCEPT !.nodes = {}, !.pages = {}, !.node_synced = {}, !.components = {},
                  !.nodes_fts = Triggers(@, store.nodes, {}, "nodes"),
                  !.components_fts = Triggers(@, store.components, {}, "components")]]

\* clearAll, as a forced rebuild calls it before it ingests.
CallClearAll ==
  /\ cache' = Initialize(cache)
  /\ \E outcome \in DeleteOutcomes(files[Db(cache)].variables_fts,
                                    files[Db(cache)].variables, "variables") :
       IF outcome = "done"
       THEN /\ files' = ClearAll(files, cache)
            /\ last' = CallResult("clearAll", TRUE, "none")
       ELSE /\ files' = ClearAllThrowing(files, cache)
            /\ last' = CallResult("clearAll", FALSE, "none")
  /\ ControllerUnchanged

\* A connection is opened again: initialize() runs 001 on the file.
CallReopen ==
  LET c == Initialize(Close(cache))
      m == Migration001(files[c.db].schema)
  IN /\ cache' = c
     /\ files' = [files EXCEPT ![c.db].schema = m.schema]
     /\ last' = CallResult("migrate", m.ok, "001")
     /\ ControllerUnchanged

\* DROP TABLE IF EXISTS variables_fts; CREATE VIRTUAL TABLE variables_fts:
\* the index 002 leaves has no entry.
RecreatedVariablesFts(store) == {}

\* 002 is run on the open store: when every statement before them succeeded,
\* the variables index and its triggers are dropped and created again.
CallApplyMigration002 ==
  LET m == Migration002(files[Db(cache)].schema)
  IN /\ cache' = Initialize(cache)
     /\ files' = [files EXCEPT ![Db(cache)].schema = m.schema,
                               ![Db(cache)].variables_fts =
                                  IF m.ok THEN RecreatedVariablesFts(files[Db(cache)]) ELSE @]
     /\ last' = CallResult("migrate", m.ok, "002")
     /\ ControllerUnchanged

\* The variables, modes and nodes the calls take their arguments from.
StoreCollections == { [id |-> "c1", name |-> "Theme"] }
StoreVariables ==
  { [id |-> v, name |-> "primary", collection_id |-> "c1", resolved_type |-> "COLOR"] :
      v \in {"v1", "v2"} }
StoreVariableIds == { v.id : v \in StoreVariables }
StoreModes == {"m1", "m2"}
StoreBoundNodes == {"n1"}

CallUpsertVariableCollection(k) ==
  /\ cache' = Initialize(cache)
  /\ files' = UpsertCollections(files, cache, {k})
  /\ last' = CallResult("upsertVariableCollection", TRUE, k.id)
  /\ ControllerUnchanged

\* upsertVariable: the statement throws when the row's collection_id
\* references no collection.
CallUpsertVariable(v) ==
  /\ cache' = Initialize(cache)
  /\ \E outcome \in DeleteOutcomes(files[Db(cache)].variables_fts,
                                    { x \in files[Db(cache)].variables : x.id = v.id },
                                    "variables") :
       IF CollectionKeyOk(files, cache, {v}) /\ outcome = "done"
       THEN /\ files' = UpsertVariables(files, cache, {v})
            /\ last' = CallResult("upsertVariable", TRUE, v.id)
       ELSE /\ files' = files
            /\ last' = CallResult("upsertVariable", FALSE, v.id)
  /\ ControllerUnchanged

\* A row may be written to a table of 002 when the table exists and the
\* row's variable_id references a variable.
ChildRowOk(f, c, table, variableId) ==
  /\ table \in f[Db(c)].schema.tables
  /\ \E v \in f[Db(c)].variables : v.id = variableId

\* upsertVariableModeValue: one row per (variable_id, mode_id).
CallUpsertVariableModeValue(variableId, modeId) ==
  /\ cache' = Initialize(cache)
  /\ IF ChildRowOk(files, cache, "variable_mode_values", variableId)
       THEN /\ files' = [files EXCEPT ![Db(cache)].mode_values =
                                         @ \cup { << variableId, modeId >> }]
            /\ last' = CallResult("upsertVariableModeValue", TRUE, variableId)
       ELSE /\ files' = files
            /\ last' = CallResult("upsertVariableModeValue", FALSE, variableId)
  /\ ControllerUnchanged

\* A binding of a node's property to a variable is recorded.
CallUpsertVariableBinding(nodeId, variableId) ==
  /\ cache' = Initialize(cache)
  /\ IF ChildRowOk(files, cache, "variable_bindings", variableId)
       THEN /\ files' = [files EXCEPT ![Db(cache)].bindings =
                                         { x \in @ : x[1] # nodeId }
                                         \cup { << nodeId, variableId >> }]
            /\ last' = CallResult("upsertVariableBinding", TRUE, variableId)
       ELSE /\ files' = files
            /\ last' = CallResult("upsertVariableBinding", FALSE, variableId)
  /\ ControllerUnchanged

\* One variable is deleted.
CallDeleteVariable(variableId) ==
  /\ cache' = Initialize(cache)
  /\ LET deleted == { v \in files[Db(cache)].variables : v.id = variableId }
     IN \E outcome \in DeleteOutcomes(files[Db(cache)].variables_fts, deleted, "variables") :
          IF outcome = "done"
          THEN /\ files' = [files EXCEPT ![Db(cache)] =
                              Cascade([@ EXCEPT !.variables = @ \ deleted,
                                                !.variables_fts =
                                                   Triggers(@, deleted, {}, "variables")])]
               /\ last' = CallResult("deleteVariable", TRUE, variableId)
          ELSE /\ files' = files
               /\ last' = CallResult("deleteVariable", FALSE, variableId)
  /\ ControllerUnchanged

\* ------------------------------------------------------------ searchNodes
\* Queries are sequences of characters: letters, the space, a quote.
QueryChars == {"c", "h", " ", "'"}
Queries == UNION { [1 .. k -> QueryChars] : k \in 0 .. MaxQueryLen }

\* query.replace(/['"]/g, '')
StripQuotes(query) == SelectSeq(query, LAMBDA ch : ch # "'")

\* .split(/\s+/): the pieces between runs of spaces; a query that is empty,
\* or starts or ends with a space, gives an empty piece.
RECURSIVE SplitFrom(_, _, _)
SplitFrom(query, pieces, afterSpace) ==
  IF query = << >> THEN pieces
  ELSE IF Head(query) = " "
    THEN IF afterSpace THEN SplitFrom(Tail(query), pieces, TRUE)
         ELSE SplitFrom(Tail(query), Append(pieces, << >>), TRUE)
  ELSE SplitFrom(Tail(query),
                 [pieces EXCEPT ![Len(pieces)] = Append(@, Head(query))], FALSE)
Split(query) == SplitFrom(query, << << >> >>, FALSE)

\* The tokens the index holds for a word of an indexed column: the word in
\* lower case, as its letters.
Letters(word) ==
  CASE word = "Card" -> << "c", "a", "r", "d" >>
    [] word = "Hero" -> << "h", "e", "r", "o" >>
    [] word = "Home" -> << "h", "o", "m", "e" >>
    [] word = "Lib" -> << "l", "i", "b" >>
    [] OTHER -> << >>
IndexedWords(entry) ==
  {entry.name} \cup { entry.path[i] : i \in { j \in DOMAIN entry.path : entry.path[j] # "/" } }

\* "t"* for a piece t: a word of the entry starts with t; the empty phrase
\* matches nothing.
IsPrefix(t, w) == Len(t) <= Len(w) /\ SubSeq(w, 1, Len(t)) = t
MatchesPrefix(t, entry) ==
  t # << >> /\ \E word \in IndexedWords(entry) : IsPrefix(t, Letters(word))

\* The options of a call: each one given or not.
NotGiven == [given |-> FALSE, value |-> ""]
NoLimitGiven == [given |-> FALSE, value |-> 0]
Given(v) == [given |-> TRUE, value |-> v]
\* options?.type, options?.pageId: a string option is used when it is given
\* and not empty.
Truthy(option) == option.given /\ option.value # ""
\* options?.limit || 20
LimitOf(options) ==
  IF options.limit.given /\ options.limit.value # 0 THEN options.limit.value
  ELSE DEFAULT_SEARCH_LIMIT

\* The rows nodes_fts MATCH selects, joined to nodes on the rowid, with the
\* type and page conditions the statement gets; the category option adds no
\* condition.
SearchMatches(store, query, options) ==
  LET pieces == Split(StripQuotes(query))
  IN { n \in store.nodes :
         /\ \E entry \in store.nodes_fts :
              /\ entry.rowid = n.figma_id
              /\ \E i \in DOMAIN pieces : MatchesPrefix(pieces[i], entry)
         /\ Truthy(options.type) => n.type = options.type.value
         /\ Truthy(options.pageId) => n.page_id = options.pageId.value }

\* ORDER BY relevance LIMIT ?: the rows returned are the first `limit` of the
\* selected ones in the order of bm25, any of them here; a negative LIMIT
\* returns all.
SearchNodes(store, query, options) ==
  LET selected == SearchMatches(store, query, options)
      limit == LimitOf(options)
      count == IF limit < 0 THEN Cardinality(selected) ELSE Min(limit, Cardinality(selected))
  IN { rows \in SUBSET selected : Cardinality(rows) = count }

\* The rows, pages and options the search specification calls with.
SearchPages == { [id |-> "p1", name |-> "Home"], [id |-> "p2", name |-> "Lib"] }
SearchNodeRows ==
  { NodeRow([id |-> "n1", name |-> "Card", type |-> "FRAME", parent |-> "p1"], "p1",
            << "Home", "/", "Card" >>, 1),
    NodeRow([id |-> "n2", name |-> "Hero", type |-> "TEXT", parent |-> "p2"], "p2",
            << "Lib", "/", "Hero" >>, 1) }
SearchOptions ==
  [type : {NotGiven, Given("FRAME")},
   pageId : {NotGiven, Given("p1")},
   category : {NotGiven, Given("layout")},
   limit : {NoLimitGiven, Given(0), Given(1)}]

\* searchNodes is called.
CallSearchNodes(query, options) ==
  /\ cache' = Initialize(cache)
  /\ \E rows \in SearchNodes(files[Db(cache)], query, options) :
       last' = CallResult("searchNodes", TRUE,
                          [query |-> query, options |-> options, rows |-> rows])
  /\ UNCHANGED files
  /\ ControllerUnchanged

\* ------------------------------------------------------------ specifications
\* Concurrent requests on one document.
Next ==
  \/ \E r \in Reqs, conn \in BOOLEAN : EnsureStart(r, conn)
  \/ \E r \in Reqs : EnsureDocInfo(r, DocA)
  \/ \E r \in Reqs, conn \in BOOLEAN : EnsureDocInfoFails(r, conn)
  \/ \E r \in Reqs, force \in BOOLEAN, conn \in BOOLEAN :
       BuildStart(r, force, NoFilter, conn)
  \/ \E r \in Reqs : BuildDocInfo(r, DocA)
  \/ \E r \in Reqs : BuildFetchFails(r)
  \/ \E r \in Reqs : BuildPage(r)
  \/ \E r \in Reqs : BuildCollections(r)
  \/ \E r \in Reqs : BuildVariables(r)
  \/ \E r \in Reqs : BuildVariablePhaseFails(r)
  \/ ChangeNotification(DocA)

Spec == Init /\ [][Next]_vars

\* One request at a time, two documents, restarts.
SwitchDocs == {DocA, DocB}
NextDocuments ==
  \/ \E conn \in BOOLEAN : EnsureStart(1, conn)
  \/ \E d \in SwitchDocs : EnsureDocInfo(1, d)
  \/ \E conn \in BOOLEAN : EnsureDocInfoFails(1, conn)
  \/ \E force \in BOOLEAN, conn \in BOOLEAN : BuildStart(1, force, NoFilter, conn)
  \/ \E d \in SwitchDocs : BuildDocInfo(1, d)
  \/ BuildFetchFails(1)
  \/ BuildPage(1)
  \/ BuildCollections(1)
  \/ BuildVariables(1)
  \/ BuildVariablePhaseFails(1)
  \/ \E conn \in BOOLEAN : StatusStart(1, conn)
  \/ \E d \in SwitchDocs : StatusDocInfo(1, TRUE, d)
  \/ StatusDocInfo(1, FALSE, NoDoc)
  \/ \E d \in SwitchDocs : ChangeNotification(d)
  \/ Restart

SpecDocuments == Init /\ [][NextDocuments]_vars

\* One request at a time while time passes.
ClockDocs == {DocA, DocE}
NextClock ==
  \/ \E conn \in BOOLEAN : EnsureStart(1, conn)
  \/ \E d \in ClockDocs : EnsureDocInfo(1, d)
  \/ \E conn \in BOOLEAN : EnsureDocInfoFails(1, conn)
  \/ \E d \in ClockDocs : BuildDocInfo(1, d)
  \/ BuildFetchFails(1)
  \/ BuildPage(1)
  \/ BuildCollections(1)
  \/ BuildVariables(1)
  \/ BuildVariablePhaseFails(1)
  \/ \E d \in ClockDocs : ChangeNotification(d)
  \/ \E dt \in {TickMs, StaleJumpMs} : Tick(dt)

SpecClock == Init /\ [][NextClock]_vars

\* The notification handler on every notification.
NextNotify ==
  \/ \E n \in Notifications : Deliver(n, DocA)
  \/ \E d \in DocIds : StatusDocInfo(1, TRUE, d)
  \/ \E conn \in BOOLEAN : StatusStart(1, conn)
  \/ Restart

SpecNotify == Init /\ [][NextNotify]_vars

\* A pending round-trip of request r's sync is answered or fails.
SyncStep(r) ==
  \/ BuildDocInfo(r, DocA)
  \/ BuildFetchFails(r)
  \/ BuildPage(r)
  \/ BuildCollections(r)
  \/ BuildVariables(r)
  \/ BuildVariablePhaseFails(r)

\* Concurrent queries on one document; sendCommandToFigma settles every
\* request it sends (with the answer, or with a timeout), so no sync waits
\* for ever.
NextFair ==
  \/ \E r \in Reqs, conn \in BOOLEAN : EnsureStart(r, conn)
  \/ \E r \in Reqs : EnsureDocInfo(r, DocA)
  \/ \E r \in Reqs, conn \in BOOLEAN : EnsureDocInfoFails(r, conn)
  \/ \E r \in Reqs : SyncStep(r)
  \/ ChangeNotification(DocA)

SpecFair == Init /\ [][NextFair]_vars /\ \A r \in Reqs : WF_vars(SyncStep(r))

\* One request at a time on one document, the store failing at any call.
NextStorage ==
  \/ \E conn \in BOOLEAN : EnsureStart(1, conn)
  \/ EnsureDocInfo(1, DocA)
  \/ \E conn \in BOOLEAN : EnsureDocInfoFails(1, conn)
  \/ EnsureStorageFails(1, DocA)
  \/ \E force \in BOOLEAN, conn \in BOOLEAN : BuildStart(1, force, NoFilter, conn)
  \/ SyncStep(1)
  \/ BuildWriteFails(1)
  \/ \E conn \in BOOLEAN : BuildStatsThrows(1, conn)
  \/ \E conn \in BOOLEAN : StatusStart(1, conn)
  \/ \E ok \in BOOLEAN : StatusDocInfo(1, ok, DocA)
  \/ StatusStorageFails(1, DocA)
  \/ ChangeNotification(DocA)

SpecStorage == Init /\ [][NextStorage]_vars

\* build_index alone, on every document, with and without a page filter.
BuildFilters == { NoFilter, [given |-> TRUE, names |-> {"Home"}],
                  [given |-> TRUE, names |-> {}] }
NextBuild ==
  \/ \E force \in BOOLEAN, filter \in BuildFilters, conn \in BOOLEAN :
       BuildStart(1, force, filter, conn)
  \/ \E d \in DocIds : BuildDocInfo(1, d)
  \/ BuildFetchFails(1)
  \/ BuildPage(1)
  \/ BuildCollections(1)
  \/ BuildVariables(1)
  \/ BuildVariablePhaseFails(1)

SpecBuild == Init /\ [][NextBuild]_vars

\* Searches on three documents, two of them sharing a file, with change
\* notifications arriving while the first document is the current one.
NotifiedWhileCurrent(d) ==
  /\ cache.currentDocumentId = d
  /\ ChangeNotification(d)
NextSwitch ==
  \/ \E conn \in BOOLEAN : EnsureStart(1, conn)
  \/ \E d \in DocIds : EnsureDocInfo(1, d)
  \/ \E conn \in BOOLEAN : EnsureDocInfoFails(1, conn)
  \/ \E d \in DocIds : BuildDocInfo(1, d)
  \/ BuildFetchFails(1)
  \/ BuildPage(1)
  \/ BuildCollections(1)
  \/ BuildVariables(1)
  \/ BuildVariablePhaseFails(1)
  \/ NotifiedWhileCurrent(DocA)

SpecSwitch == Init /\ [][NextSwitch]_vars

\* The node and component tables of one store under any sequence of calls.
NextStore ==
  \/ \E page \in StorePages : CallUpsertPage(page)
  \/ \E row \in StoreNodeRows : CallUpsertNode(row)
  \/ \E key \in StoreComponentKeys, name \in StoreComponentNames :
       CallUpsertComponent(key, name)
  \/ \E key \in StoreComponentKeys : CallIncrementComponentUsage(key)
  \/ CallClearAll
  \/ Tick(TickMs)

SpecStore == Init /\ [][NextStore]_vars

\* Searches on one store under any sequence of writes.
NextSearch ==
  \/ \E page \in SearchPages : CallUpsertPage(page)
  \/ \E row \in SearchNodeRows : CallUpsertNode(row)
  \/ \E query \in Queries, options \in SearchOptions : CallSearchNodes(query, options)
  \/ CallClearAll

SpecSearch == Init /\ [][NextSearch]_vars

\* The schema and the variable tables of one store under any sequence of
\* migrations and calls.
NextSchema ==
  \/ CallReopen
  \/ CallApplyMigration002
  \/ \E k \in StoreCollections : CallUpsertVariableCollection(k)
  \/ \E v \in StoreVariables : CallUpsertVariable(v)
  \/ \E v \in StoreVariableIds, m \in StoreModes : CallUpsertVariableModeValue(v, m)
  \/ \E n \in StoreBoundNodes, v \in StoreVariableIds : CallUpsertVariableBinding(n, v)
  \/ \E v \in StoreVariableIds : CallDeleteVariable(v)
  \/ CallClearAll

SpecSchema == Init /\ [][NextSchema]_vars

\* ------------------------------------------------------------------ properties
\* Request r is inside buildIndexImpl.
InBuildIndexImpl(r) == req[r].pc \in BuildPcs

\* The step is request r's ensureIndex returning after its sync succeeded.
EnsureSyncSucceeds(r) ==
  /\ req[r].kind = "ensure" /\ req[r].pc \in {"b_coll", "b_vars"}
  /\ req'[r].pc = "idle"
  /\ last'.kind = "ensure" /\ last'.autoBuilt

\* The step is request r's ensureIndex returning after its sync failed.
EnsureSyncFails(r) ==
  /\ req[r].kind = "ensure" /\ InBuildIndexImpl(r)
  /\ req'[r].pc = "idle"
  /\ last'.kind = "ensure" /\ ~last'.autoBuilt

\* C1: at most one sync runs at a time: no two requests are inside
\* buildIndexImpl in the same state, whether they entered it through
\* ensureIndex or through build_index.
C1_AtMostOneSync ==
  \A r1, r2 \in Reqs : (InBuildIndexImpl(r1) /\ InBuildIndexImpl(r2)) => r1 = r2

\* C2: an invalidation that arrives while a sync is in flight is not lost.
\* A sync that ensureIndex started for another reason than invalidation found
\* no flag set when it started; if the in-memory flag is set when that sync
\* completes successfully, a notification arrived meanwhile, and the flag is
\* still set after the completion.
C2_InvalidationNotLost ==
  [][\A r \in Reqs :
       (EnsureSyncSucceeds(r) /\ req[r].syncReason # "document changes detected"
        /\ indexInvalidated) => indexInvalidated']_vars

\* Every Node row of every store references a Page row of that store.
NoDanglingPage ==
  \A p \in Paths : \A n \in files[p].nodes : \E pg \in files[p].pages : pg.id = n.page_id

\* C6: the Page row of a page is written before the page's first Node row, so
\* no Node write is ever refused for want of its Page row, and in every
\* reachable state of every store each Node's page_id references an existing
\* Page row, also after a sync that failed partway.
C6_PageBeforeNodes ==
  /\ NoDanglingPage
  /\ last.message # "FOREIGN KEY constraint failed"

\* C6 happens: a sync failed on a later page after it had written Node rows,
\* and the rows it wrote are in the store.
C6_Witness ==
  /\ last.kind \in {"ensure", "build"} /\ last.message = "timeout"
  /\ \E p \in Paths : /\ files[p].nodes # {}
                       /\ files[p].meta.last_full_sync.kind # "iso"

\* The step is request r's ensureIndex deciding, after its document-info
\* round-trip, whether to sync.
EnsureDecides(r) ==
  /\ req[r].kind = "ensure" /\ req[r].pc = "e_docinfo"
  /\ \/ req'[r].pc = "b_docinfo"
     \/ (req'[r].pc = "idle" /\ last'.kind = "ensure")

\* The step starts the sync of request r's ensureIndex.
EnsureStartsSync(r) == req'[r].pc = "b_docinfo" /\ syncInProgress'

\* C3: the 60-second limit on staleness-triggered syncs counts from the last
\* attempt, failed ones included: with rows present, a last_full_sync older
\* than the threshold and no invalidation, no sync attempt starts less than
\* 60 seconds after a staleness-triggered attempt failed.
C3_RetryLimitCountsFailures ==
  \A r \in Reqs :
    ~ /\ req[r].kind = "ensure" /\ req[r].pc = "b_docinfo"
      /\ req[r].syncReason = "stale index"
      /\ GetMeta(files, cache, "last_full_sync").kind = "iso"
      /\ lastFailedAttempt > 0
      /\ now - lastFailedAttempt < RETRY_LIMIT_MS

\* C7: when the index is invalidated (in memory, or in the store of the
\* document ensureIndex switched to), the remote source is connected and no
\* sync is in flight, ensureIndex starts a sync, whatever the clock, the last
\* full sync and the last sync attempt are.
C7_InvalidatedSyncsAtOnce ==
  [][\A r \in Reqs :
       (EnsureDecides(r) /\ ~syncInProgress
        /\ WasInvalidated(files, cache', indexInvalidated))
       => (EnsureStartsSync(r) \/ (req'[r].pc = "idle" /\ ~last'.connected))]_vars

\* C7 happens: a sync asked for by an invalidation is starting in the very
\* millisecond in which the previous sync succeeded.
C7_Witness ==
  \E r \in Reqs :
    /\ req[r].kind = "ensure" /\ req[r].pc = "b_docinfo"
    /\ req[r].syncReason = "document changes detected"
    /\ lastSyncAttempt = now
    /\ GetMeta(files, cache, "last_full_sync") = ToISOString(now)

\* The staleness window that opens at t0, sampled: its first instant, half a
\* retry limit later, its last instant.
WindowTimes(t0) == { t0, t0 + TickMs, t0 + INDEX_STALE_THRESHOLD_MS }

\* An ensureIndex call at time t on the store behind c is served from the
\* index without a sync.
Served(f, c, flag, t, lastAttempt) ==
  /\ HasNodes(f, c)
  /\ ~ShouldSync(HasNodes(f, c), WasInvalidated(f, c, flag), IsStale(f, c, t), t, lastAttempt)

\* After the step both invalidation flags are cleared and last_full_sync
\* holds the time of the step.
FlagsClearedAndSyncRecorded ==
  /\ indexInvalidated' = FALSE
  /\ GetMeta(files', cache', "index_invalidated") = "false"
  /\ GetMeta(files', cache', "last_full_sync") = ToISOString(now)

\* C8 as stated: after a sync triggered by ensureIndex succeeds, the flags
\* are cleared, last_full_sync holds the completion time, and an ensureIndex
\* call anywhere in the staleness window is served without a sync.
C8_ServedAfterSuccess ==
  [][\A r \in Reqs :
       EnsureSyncSucceeds(r)
       => /\ FlagsClearedAndSyncRecorded
          /\ \A t \in WindowTimes(now) :
               Served(files', cache', indexInvalidated', t, lastSyncAttempt')]_vars

\* C8, amended: after a sync triggered by ensureIndex succeeds, the flags
\* are cleared and last_full_sync holds the completion time; an ensureIndex
\* call in the staleness window is served without a sync if the store holds
\* at least one Node row, and syncs again if it holds none.
C8_ServedAfterSuccessWithRows ==
  [][\A r \in Reqs :
       EnsureSyncSucceeds(r)
       => /\ FlagsClearedAndSyncRecorded
          /\ \A t \in WindowTimes(now) :
               IF HasNodes(files', cache')
               THEN Served(files', cache', indexInvalidated', t, lastSyncAttempt')
               ELSE ShouldSync(FALSE, FALSE, IsStale(files', cache', t), t,
                               lastSyncAttempt')]_vars

\* C8 happens: time has passed since an ensureIndex sync succeeded, and a
\* later connected ensureIndex call was served from the index.
C8_Witness ==
  /\ last = Result("ensure", TRUE, FALSE, "none", 0, TRUE)
  /\ lastSyncAttempt > 0 /\ now > lastSyncAttempt
  /\ GetMeta(files, cache, "last_full_sync") = ToISOString(lastSyncAttempt)
  /\ GetMeta(files, cache, "index_invalidated") = "false"

\* At the first instant the retry limit allows, an ensureIndex call on the
\* state after the step would sync.
RetryDue ==
  LET t == IF now' > lastSyncAttempt' + RETRY_LIMIT_MS THEN now'
           ELSE lastSyncAttempt' + RETRY_LIMIT_MS + 1
  IN ShouldSync(HasNodes(files', cache'),
                WasInvalidated(files', cache', indexInvalidated'),
                IsStale(files', cache', t), t, lastSyncAttempt')

\* C9: a sync triggered by ensureIndex that fails changes neither the
\* in-memory flag nor any store's sync metadata (the persisted flag,
\* last_full_sync), in none of its steps; the failure releases the guard and
\* returns the error, and if the sync ran on the database it was decided on,
\* an ensureIndex call made once the retry limit allows attempts it again.
C9_FailureKeepsState ==
  [][\A r \in Reqs :
       /\ (req[r].kind = "ensure" /\ InBuildIndexImpl(r) /\ req'[r] # req[r]
           /\ ~EnsureSyncSucceeds(r))
          => /\ indexInvalidated' = indexInvalidated
             /\ \A p \in Paths : files'[p].meta = files[p].meta
       /\ EnsureSyncFails(r)
          => /\ syncInProgress' = FALSE
             /\ last'.message \in {"timeout", "FOREIGN KEY constraint failed"}
             /\ (cache'.db = req[r].decidedDb => RetryDue)]_vars

\* C9 happens: a sync of an invalidated, earlier synced index has failed, and
\* the flags and last_full_sync are as they were.
C9_Witness ==
  /\ last.kind = "ensure" /\ last.message = "timeout"
  /\ indexInvalidated
  /\ GetMeta(files, cache, "index_invalidated") = "true"
  /\ GetMeta(files, cache, "last_full_sync").kind = "iso"

\* Every Node row a sync of document d writes.
RowsOf(d) ==
  UNION { PageRows(d, RemotePages(d)[i]) : i \in DOMAIN RemotePages(d) }

\* C4: documents with distinct ids are isolated: whenever a document is the
\* active one, every Node row visible in its store is a row ingested for that
\* document, with the fields it was ingested with; no row ingested for
\* another document is visible there, and none has overwritten one of its own.
C4_DocumentIsolation ==
  cache.currentDocumentId # NoDoc
  => files[Db(cache)].nodes \subseteq RowsOf(cache.currentDocumentId)

\* C10: the invalidation survives a restart: if a notification reported a
\* change of a document and the process restarted before any successful sync,
\* the first ensureIndex call that reaches that document with the remote
\* source connected starts a sync (also when the document's store holds no
\* other document's rows).
C10_InvalidationSurvivesRestart ==
  [][\A r \in Reqs :
       (EnsureDecides(r) /\ pendingRestart.restarted
        /\ pendingRestart.doc = cache'.currentDocumentId
        /\ files[Db(cache')].nodes \subseteq RowsOf(pendingRestart.doc))
       => (EnsureStartsSync(r) \/ (req'[r].pc = "idle" /\ ~last'.connected))]_vars

\* The condition the notification handler is to implement.
StructuralDrift(n) ==
  /\ n.changeType = "document_change"
  /\ (n.nodeCreations > 0 \/ n.nodeDeletions > 0 \/ n.propertyChanges > 5)

\* C5: a delivered notification sets the invalidation flag, in memory and in
\* the open store, if and only if its changeType is document_change and it
\* reports a node creation, a node deletion or more than five property
\* changes; any other notification leaves the flag and the stores as they are.
C5_InvalidationThreshold ==
  [][(notification' # notification /\ notification' # NoNotification)
     => /\ indexInvalidated' = (indexInvalidated \/ StructuralDrift(notification'))
        /\ IF StructuralDrift(notification')
           THEN GetMeta(files', cache', "index_invalidated") = "true"
           ELSE files' = files]_vars

\* C5 happens: six property changes, and nothing else, have set the flag.
C5_Witness ==
  /\ notification = [changeType |-> "document_change", nodeCreations |-> 0,
                     nodeDeletions |-> 0, propertyChanges |-> 6]
  /\ indexInvalidated
  /\ GetMeta(files, cache, "index_invalidated") = "true"

\* The step is an ensureIndex call that returns without awaiting anything.
EnsureAnswersAtOnce ==
  /\ req' = req
  /\ last' # last /\ last'.kind = "ensure"

\* The step is request r's ensureIndex call passing the guard check and
\* awaiting its document-info round-trip.
EnsurePassesGuard(r) ==
  /\ req[r].pc = "idle"
  /\ req'[r].kind = "ensure" /\ req'[r].pc = "e_docinfo"

\* C11: an ensureIndex call that arrives while a sync is in flight (some
\* request is inside buildIndexImpl) is told "Sync already in progress" with
\* ready = false and autoBuilt = false, and goes no further.
C11_ToldSyncInProgress ==
  [][(\E q \in Reqs : InBuildIndexImpl(q))
     => /\ \A r \in Reqs : ~EnsurePassesGuard(r)
        /\ EnsureAnswersAtOnce
           => (/\ last'.message = "Sync already in progress"
               /\ ~last'.ok /\ ~last'.autoBuilt)]_vars

\* C12: every sync started by ensureIndex ends with the guard released,
\* whether buildIndexImpl succeeds or reports a failure: whenever the guard is
\* set it is released later, so that a later call can start a sync.
C12_GuardReleased == syncInProgress ~> ~syncInProgress

\* C12 happens: a sync started by ensureIndex has failed on a timed-out
\* fetch, and the guard is released.
C12_Witness ==
  /\ last.kind = "ensure" /\ last.message = "timeout"
  /\ ~syncInProgress
  /\ \A r \in Reqs : req[r].pc = "idle"

\* The store ensureIndex decides on holds rows, was fully synced longer ago
\* than the threshold and is not invalidated.
StaleOnly(f, c, flag, t) ==
  /\ HasNodes(f, c)
  /\ GetMeta(f, c, "last_full_sync").kind = "iso"
  /\ IsStale(f, c, t)
  /\ ~WasInvalidated(f, c, flag)

\* C13: with rows present, last_full_sync older than the threshold, no
\* invalidation flag and no sync recorded in the previous 60 seconds, a
\* connected ensureIndex call starts a sync, for the reason "stale index", and
\* a call that is inside its sync never starts a second one.
C13_StaleSyncsOnce ==
  [][\A r \in Reqs :
       /\ (EnsureDecides(r)
           /\ StaleOnly(files, cache', indexInvalidated, now)
           /\ now - lastSyncAttempt > RETRY_LIMIT_MS)
          => \/ EnsureStartsSync(r) /\ req'[r].syncReason = "stale index"
             \/ req'[r].pc = "idle" /\ ~last'.connected
       /\ (req[r].kind = "ensure" /\ InBuildIndexImpl(r) /\ req'[r] # req[r])
          => req'[r].pc # "b_docinfo"]_vars

\* C13 happens: a sync of a stale, earlier synced index is starting more
\* than 60 seconds after the last recorded sync.
C13_Witness ==
  \E r \in Reqs :
    /\ req[r].kind = "ensure" /\ req[r].pc = "b_docinfo"
    /\ req[r].syncReason = "stale index"
    /\ StaleOnly(files, cache, indexInvalidated, now)
    /\ lastSyncAttempt > 0 /\ now - lastSyncAttempt > RETRY_LIMIT_MS

\* The step is request r's ensureIndex call returning while the remote
\* source is unreachable, no sync being in flight.
EnsureReturnsUnconnected(r) ==
  /\ ~syncInProgress
  /\ \/ req[r].pc = "idle" /\ FirstFree(r) /\ EnsureAnswersAtOnce
     \/ req[r].kind = "ensure" /\ req[r].pc = "e_docinfo" /\ req'[r].pc = "idle"
  /\ last'.kind = "ensure" /\ ~last'.connected

\* C14: when the remote source is unreachable and the Node table has rows,
\* ensureIndex returns ready, and whenever the stored data is stale (its
\* recorded last full sync is older than the threshold) or invalidated, the
\* result carries the warning that the cached index is used.
C14_CachedServedWithWarning ==
  [][\A r \in Reqs :
       (EnsureReturnsUnconnected(r) /\ HasNodes(files, cache'))
       => /\ last'.ok
          /\ (\/ WasInvalidated(files, cache', indexInvalidated)
              \/ /\ GetMeta(files, cache', "last_full_sync").kind = "iso"
                 /\ IsStale(files, cache', now))
             => last'.message = "Using cached index (not connected to Figma)"]_vars

\* The pages request r's sync has walked to the end.
DonePages(r) ==
  LET all == TargetPages(req[r].doc, req[r].filter)
  IN { all[i] : i \in 1 .. (Len(all) - Len(req[r].left)) }

\* The step is request r's sync failing while it walks a page.
FailsWalkingPage(r) ==
  /\ req[r].pc = "b_page" /\ req'[r].pc = "idle"
  /\ last'.kind = req[r].kind

\* C15: when a sync fails while walking page k, nothing is rolled back: no
\* store loses a Page or Node row, the Page row and the Node rows of every
\* page walked before k are in the active store, the call reports the
\* failure, and no store's last_full_sync (or other sync metadata) changes.
C15_PartialFailureKeepsRows ==
  [][\A r \in Reqs :
       FailsWalkingPage(r)
       => /\ \A p \in Paths : /\ files[p].nodes \subseteq files'[p].nodes
                                /\ files'[p].meta = files[p].meta
                                /\ \A pg \in files[p].pages :
                                     \E pg2 \in files'[p].pages : pg2.id = pg.id
          /\ \A page \in DonePages(r) :
               /\ \E pg \in files'[Db(cache')].pages : pg.id = page.id
               /\ PageRows(req[r].doc, page) \subseteq files'[Db(cache')].nodes
          /\ ~last'.autoBuilt /\ last'.message = "timeout"
          /\ (req[r].kind = "build" => ~last'.ok)]_vars

\* C15 happens: a forced rebuild has failed on the second page of a document,
\* and the store holds exactly the first page's rows, with no last_full_sync.
C15_Witness ==
  /\ last.kind = "build" /\ ~last.ok /\ last.message = "timeout"
  /\ cache.currentDocumentId = DocA
  /\ files[Db(cache)].nodes = PageRows(DocA, RemotePages(DocA)[1])
  /\ { pg.id : pg \in files[Db(cache)].pages } = { RemotePages(DocA)[1].id }
  /\ GetMeta(files, cache, "last_full_sync").kind # "iso"

\* The step is request r's sync returning from its variable phase.
LeavesVariablePhase(r) ==
  /\ req[r].pc \in {"b_coll", "b_vars"} /\ req'[r].pc = "idle"
  /\ last'.kind = req[r].kind

\* C16: however the variable phase ends (a collection or variable fetch
\* failed, a write was refused, or all went well), the sync returns success,
\* last_full_sync holds the time of the return, and every Node and Page row
\* of every store is as the node phase left it.
C16_VariableFailureIsSuccess ==
  [][\A r \in Reqs :
       LeavesVariablePhase(r)
       => /\ IF req[r].kind = "ensure" THEN last'.ok /\ last'.autoBuilt ELSE last'.ok
          /\ last'.nodesIndexed = req[r].totalNodes
          /\ GetMeta(files', cache', "last_full_sync") = ToISOString(now)
          /\ \A p \in Paths : /\ files'[p].nodes = files[p].nodes
                                /\ files'[p].pages = files[p].pages]_vars

\* C16 happens: a sync of the document with variables has returned success
\* with the collections written and no variable, the variable fetch having
\* failed; the rows of the node phase and last_full_sync are in the store.
C16_Witness ==
  /\ last.kind \in {"ensure", "build"} /\ last.ok /\ last.nodesIndexed > 0
  /\ cache.currentDocumentId = DocB
  /\ files[Db(cache)].collections # {} /\ files[Db(cache)].variables = {}
  /\ RowsOf(DocB) \subseteq files[Db(cache)].nodes
  /\ GetMeta(files, cache, "last_full_sync") = ToISOString(now)

\* C17: every tool operation answers a remote or storage exception with a
\* structured result: no exception leaves the handler of build_index,
\* index_status or search.
C17_NoExceptionPropagates == last.message # "uncaught"

\* The store behind c is Fresh at time t: it holds Node rows, its recorded
\* last full sync is inside the staleness window, and neither invalidation
\* flag is set.
Fresh(f, c, flag, t) ==
  /\ HasNodes(f, c)
  /\ GetMeta(f, c, "last_full_sync").kind = "iso"
  /\ ~IsStale(f, c, t)
  /\ ~WasInvalidated(f, c, flag)

\* The step is request r's ensureIndex call reading the store and deciding:
\* straight from the call when not connected, or after its document-info
\* round-trip.
EnsureReadsStore(r) ==
  /\ ~syncInProgress
  /\ \/ req[r].pc = "idle" /\ FirstFree(r) /\ EnsureAnswersAtOnce
     \/ EnsureDecides(r)

\* C18: when the store ensureIndex reads is Fresh (and no sync is in
\* flight), ensureIndex returns ready with autoBuilt false and no message,
\* starts no sync, and leaves every store as it was.
C18_FreshServedUntouched ==
  [][\A r \in Reqs :
       (EnsureReadsStore(r) /\ Fresh(files, cache', indexInvalidated, now))
       => /\ req'[r].pc = "idle"
          /\ last'.ok /\ ~last'.autoBuilt /\ last'.message = "none"
          /\ ~syncInProgress'
          /\ files' = files]_vars

\* C18 happens: an ensureIndex call made without a connection was served
\* from a Fresh store some time after its sync.
C18_Witness ==
  /\ last = Result("ensure", TRUE, FALSE, "none", 0, FALSE)
  /\ Fresh(files, cache, indexInvalidated, now)
  /\ now > lastSyncAttempt

\* C19: while the index is Fresh, after a successful sync and before the
\* next invalidation, serving a query makes no round-trip to the remote
\* source: no ensureIndex call awaits get_document_info.
C19_FreshNoRoundTrip ==
  [][\A r \in Reqs :
       (/\ lastSyncAttempt > 0
        /\ ~syncInProgress
        /\ Fresh(files, cache, indexInvalidated, now))
       => ~EnsurePassesGuard(r)]_vars

\* C20: whenever the Node table of the store ensureIndex reads is empty and
\* the remote source is connected, ensureIndex starts a sync, whatever
\* last_full_sync and the last sync attempt are: every such call does.
C20_EmptyAlwaysSyncs ==
  [][\A r \in Reqs :
       (EnsureDecides(r) /\ NodeCount(files, cache') = 0)
       => \/ /\ EnsureStartsSync(r)
             /\ req'[r].syncReason \in {"empty index", "document changes detected"}
          \/ req'[r].pc = "idle" /\ ~last'.connected]_vars

\* C20 happens: a sync of an empty index is starting in the very millisecond
\* in which the previous sync of the same, empty document succeeded.
C20_Witness ==
  \E r \in Reqs :
    /\ req[r].kind = "ensure" /\ req[r].pc = "b_docinfo"
    /\ req[r].syncReason = "empty index"
    /\ NodeCount(files, cache) = 0
    /\ lastSyncAttempt = now
    /\ GetMeta(files, cache, "last_full_sync") = ToISOString(now)

\* C21: the process holds at most one store connection open, in every
\* state and at every moment inside a step (the most it ever held at once is
\* one), and the open connection is the one the cache manager refers to: on
\* a change of document the previous connection is closed before the next
\* one is opened.
C21_OneConnection ==
  /\ cache.open <= 1 /\ cache.peak <= 1
  /\ (cache.open = 1) <=> (cache.db # NoDb)
  /\ cache.db # NoDb => cache.db = cache.dbPath

\* C21 happens: the store of one document is open after the store of
\* another document was open and written.
C21_Witness ==
  /\ cache.currentDocumentId = DocE /\ cache.db = DbPathFor(DocE)
  /\ cache.open = 1
  /\ files[DbPathFor(DocA)].nodes # {}

\* C22: for every document id whose derived file path is the path of the
\* open connection, setDocumentId is a no-op: whenever a connection is open,
\* calling it with such an id leaves the cache manager as it is, the
\* connection neither closed nor reopened.
C22_SamePathNoOp ==
  \A d \in SwitchDocs :
    (cache.db # NoDb /\ DbPathFor(d) = cache.db) => SetDocumentId(cache, d) = cache

\* The Node rows of the open store and the last_synced of each.
StoreNodes(f, c) == f[Db(c)].nodes
LastSynced(f, c) == f[Db(c)].node_synced

\* An upsertNode call returns in this step.
UpsertNodeReturns ==
  /\ last' # last \/ files' # files
  /\ last'.kind = "upsertNode"
  /\ last'.ok

\* C23: under any sequence of store calls the Node table holds exactly one
\* row and one last_synced per figma_id present; an upsertNode call that
\* returns leaves for its figma_id exactly the row it was given, with
\* last_synced the time of the call, and every other row and its last_synced
\* as they were; upserting the same record again, at once or later, yields
\* the same rows, and at once the same last_synced too.
C23_UpsertNodeLastWins ==
  [][ /\ \A n, m \in StoreNodes(files', cache') : n.figma_id = m.figma_id => n = m
      /\ \A x, y \in LastSynced(files', cache') : x[1] = y[1] => x = y
      /\ { x[1] : x \in LastSynced(files', cache') }
           = { n.figma_id : n \in StoreNodes(files', cache') }
      /\ UpsertNodeReturns =>
           LET row == last'.arg
               others(S) == { n \in S : n.figma_id # row.figma_id }
               stamps(S) == { x \in S : x[1] # row.figma_id }
           IN /\ StoreNodes(files', cache') = others(StoreNodes(files, cache)) \cup {row}
              /\ LastSynced(files', cache')
                   = stamps(LastSynced(files, cache))
                     \cup { << row.figma_id, CurrentTimestamp(now) >> }
              /\ UpsertNode(files', cache', row, now) = files'
              /\ StoreNodes(UpsertNode(files', cache', row, now + TickMs), cache')
                   = StoreNodes(files', cache')
    ]_vars

\* C23 happens: a record was upserted after the clock advanced, beside the
\* row of another figma_id that keeps its earlier last_synced.
C23_Witness ==
  /\ last.kind = "upsertNode" /\ last.ok
  /\ last.arg.figma_id = "n1" /\ last.arg.name = "Hero"
  /\ last.arg \in StoreNodes(files, cache)
  /\ Cardinality(StoreNodes(files, cache)) = 2
  /\ << "n1", CurrentTimestamp(now) >> \in LastSynced(files, cache)
  /\ \E x \in LastSynced(files, cache) : x[1] = "n2" /\ x[2] < CurrentTimestamp(now)

\* components.usage_count of a key; a key without a row has been used 0 times.
Components(f, c) == f[Db(c)].components
UsageCount(f, c, key) ==
  IF \E x \in Components(f, c) : x.key = key
  THEN (CHOOSE x \in Components(f, c) : x.key = key).usage_count
  ELSE 0

\* A call of the store layer returns in this step.
CallReturns(kind) ==
  /\ last' # last \/ files' # files
  /\ last'.kind = kind

\* C26 as stated: over any sequence of operations, a forced rebuild's
\* clearAll among them, no component's usage_count decreases.
C26_UsageNeverDecreases ==
  [][ \A key \in StoreComponentKeys :
        UsageCount(files', cache', key) >= UsageCount(files, cache, key) ]_vars

\* C26, amended: incrementComponentUsage adds exactly 1 to the usage_count of
\* the row of its key and changes no other; every other call but clearAll,
\* upsertComponent of an existing component among them, leaves every
\* usage_count as it is; clearAll, the first step of a forced rebuild,
\* deletes every component row, so that a component ingested again starts
\* from 0.
C26_UsageKeptButByClearAll ==
  [][ /\ \A key \in StoreComponentKeys :
           LET used == UsageCount(files, cache, key)
               incremented == /\ CallReturns("incrementComponentUsage")
                              /\ last'.arg = key
                              /\ \E x \in Components(files, cache) : x.key = key
           IN /\ incremented => UsageCount(files', cache', key) = used + 1
              /\ ~incremented /\ ~CallReturns("clearAll")
                   => UsageCount(files', cache', key) = used
      /\ CallReturns("clearAll") => Components(files', cache') = {}
      /\ CallReturns("upsertComponent")
           => \E x \in Components(files', cache') :
                /\ x.key = last'.arg
                /\ x.usage_count = UsageCount(files, cache, x.key)
    ]_vars

\* C26 happens: a component that was used is upserted again and keeps its
\* usage_count, beside a component never used.
C26_Witness ==
  /\ last.kind = "upsertComponent" /\ last.arg = "k1"
  /\ UsageCount(files, cache, "k1") = MaxUsage
  /\ \E x \in Components(files, cache) : x.key = "k2" /\ x.usage_count = 0

\* The rows of the tables of 002 and the variables of the open store.
VariableIds(f, c) == { v.id : v \in f[Db(c)].variables }
ModeValues(f, c) == f[Db(c)].mode_values
Bindings(f, c) == f[Db(c)].bindings

\* C24: in every state each mode-value row and each binding row references
\* an existing variable; and a step that removes a variable, deleteVariable or
\* clearAll, leaves no mode-value or binding row of that variable.
C24_NoOrphans ==
  [][ /\ \A x \in ModeValues(files', cache') : x[1] \in VariableIds(files', cache')
      /\ \A x \in Bindings(files', cache') : x[2] \in VariableIds(files', cache')
      /\ \A v \in VariableIds(files, cache) \ VariableIds(files', cache') :
           /\ \A x \in ModeValues(files', cache') : x[1] # v
           /\ \A x \in Bindings(files', cache') : x[2] # v
    ]_vars

\* C24 happens: under the schema of 002 one of two variables has just been
\* deleted; the other one keeps its mode values and its binding, and no row
\* of the deleted one is left.
C24_Witness ==
  /\ last.kind = "deleteVariable" /\ last.arg = "v1"
  /\ VariableIds(files, cache) = {"v2"}
  /\ ModeValues(files, cache) = { << "v2", m >> : m \in StoreModes }
  /\ Bindings(files, cache) = { << "n1", "v2" >> }

\* The migration script has been applied to the schema.
Applied(schema, script) ==
  IF script = "001" THEN Tables001 \subseteq schema.tables
  ELSE Tables002 \subseteq schema.tables
SchemaOf(f, c) == f[Db(c)].schema

\* C25: a migration script applied to a store on which it has already been
\* applied succeeds and leaves the schema, the reference rows and
\* schema_version as they were; and no step lowers schema_version.
C25_ReapplyingIsSafe ==
  [][ /\ (CallReturns("migrate") /\ Applied(SchemaOf(files, cache), last'.arg))
           => (last'.ok /\ SchemaOf(files', cache') = SchemaOf(files, cache))
      /\ VersionRank(SchemaOf(files', cache').schema_version)
           >= VersionRank(SchemaOf(files, cache).schema_version)
    ]_vars

\* Every key of the rows of a database file before is a key of a row after,
\* table by table.
KeysKept(before, after) ==
  /\ \A n \in before.nodes : \E m \in after.nodes : m.figma_id = n.figma_id
  /\ \A x \in before.pages : \E y \in after.pages : y.id = x.id
  /\ \A x \in before.components : \E y \in after.components : y.key = x.key
  /\ \A x \in before.collections : \E y \in after.collections : y.id = x.id
  /\ \A x \in before.variables : \E y \in after.variables : y.id = x.id

\* The step in which a build with force_rebuild calls clearAll.
ForcedClear ==
  \E r \in Reqs : req[r].pc = "b_docinfo" /\ req[r].force /\ req'[r].pc # "b_docinfo"

\* C27: every step but the clearAll of a forced rebuild, each step of an
\* auto-sync or of a build_index without force_rebuild among them, keeps
\* every Node, Page, Component, collection and Variable key of every database
\* file; and the clearAll of a forced rebuild leaves other files as they are.
C27_OnlyClearAllDeletes ==
  [][ files' # files =>
        \A p \in Paths :
          \/ files'[p] = files[p]
          \/ ForcedClear /\ p = cache'.db
          \/ KeysKept(files[p], files'[p]) ]_vars

\* C27 happens: after a sync without force of a document that has no node n2
\* and no component, in the file another document was synced to, the rows of
\* the other document are still there beside the new ones.
C27_Witness ==
  /\ last.kind \in {"build", "ensure"} /\ last.ok
  /\ cache.currentDocumentId = DocB
  /\ LET store == files[DbPathFor(DocB)]
     IN /\ \E n \in store.nodes : n.figma_id = "n1" /\ n.name = "Hero"
        /\ \E n \in store.nodes : n.figma_id = "n2"
        /\ \E x \in store.components : x.key = "n3"
        /\ \E x \in store.variables : x.id = "v1"

\* The nodes of document d below a page or a node, from the remote tree.
RECURSIVE NodesBelow(_, _)
NodesBelow(d, id) ==
  RemoteChildren(d, id) \cup UNION { NodesBelow(d, n.id) : n \in RemoteChildren(d, id) }

\* The nodes in the trees of the pages a build of d with the filter walks.
WalkedNodes(d, filter) ==
  UNION { NodesBelow(d, RemotePages(d)[i].id) :
          i \in { j \in DOMAIN RemotePages(d) :
                    ~filter.given \/ RemotePages(d)[j].name \in filter.names } }

\* A build_index request returns in this step.
BuildReturns(r) ==
  /\ req[r].kind = "build" /\ req[r].pc \in BuildPcs
  /\ req'[r].pc = "idle"

\* C28: a build returns an error only when a round-trip of its node phase
\* failed; otherwise, for every document (one with no page among them) and
\* every page filter, it returns success with nodesIndexed the number of
\* nodes in the trees of the pages it walked.
C28_BuildCountsWalkedNodes ==
  [][ \A r \in Reqs : BuildReturns(r) =>
        \/ ~last'.ok /\ last'.message = "timeout" /\ req[r].pc \in {"b_docinfo", "b_page"}
        \/ /\ last'.ok /\ last'.kind = "build"
           /\ last'.nodesIndexed = Cardinality(WalkedNodes(req[r].doc, req[r].filter))
    ]_vars

\* C28 happens: a build of the document with no page has returned success
\* with nodesIndexed 0.
C28_Witness ==
  /\ last.kind = "build" /\ last.ok /\ last.nodesIndexed = 0
  /\ cache.currentDocumentId = DocE
  /\ GetMeta(files, cache, "document_name") = DocName(DocE)

\* buildIndexImpl returns success in this step.
SyncReturnsSuccess(r) ==
  /\ req[r].pc \in BuildPcs /\ req'[r].pc = "idle"
  /\ last'.ok
  /\ last'.kind = "build" \/ (last'.kind = "ensure" /\ last'.autoBuilt)

\* The Node rows of a page in a database file, all of them or of one type.
NodesOfPage(store, pageId) == { n \in store.nodes : n.page_id = pageId }
NodesOfPageByType(store, pageId, type) ==
  { n \in NodesOfPage(store, pageId) : n.type = type }

\* C29: when a sync returns success, the Page row of each page it walked
\* holds the counts of the store: node_count the number of Node rows of the
\* page, component_count those of type COMPONENT, frame_count those of type
\* FRAME.
C29_PageCountsMatchStore ==
  [][ \A r \in Reqs : SyncReturnsSuccess(r) =>
        LET store == files'[cache'.db]
            walked == TargetPages(req[r].doc, req[r].filter)
        IN \A i \in DOMAIN walked :
             \E row \in store.pages :
               /\ row.id = walked[i].id
               /\ row.node_count = Cardinality(NodesOfPage(store, row.id))
               /\ row.component_count
                    = Cardinality(NodesOfPageByType(store, row.id, "COMPONENT"))
               /\ row.frame_count = Cardinality(NodesOfPageByType(store, row.id, "FRAME"))
    ]_vars

ForcedDocInfoFails(r) ==
  /\ req[r].kind = "build" /\ req[r].force
  /\ req[r].pc = "b_docinfo" /\ req'[r].pc = "idle"
  /\ last'.kind = "build" /\ ~last'.ok
ForcedPageFetchFails(r) ==
  /\ req[r].kind = "build" /\ req[r].force
  /\ req[r].pc = "b_page" /\ req'[r].pc = "idle"
  /\ last'.kind = "build" /\ ~last'.ok

\* C31 as stated: a forced rebuild that fails at its document-info fetch
\* leaves every store unchanged; one that fails at a page fetch leaves the
\* store with last_full_sync empty and Unsynced, with no Node row.
C31_FailedRebuildIsUnsynced ==
  [][\A r \in Reqs :
       /\ ForcedDocInfoFails(r) => files' = files
       /\ ForcedPageFetchFails(r)
            => /\ GetMeta(files', cache', "last_full_sync") = EmptyTime
               /\ ~HasNodes(files', cache')]_vars

\* C31, amended: a forced rebuild that fails at its document-info fetch
\* leaves every store unchanged; one that fails at a page fetch leaves
\* last_full_sync empty and, of Node rows, exactly those of the pages it had
\* walked before the failure, so that the store is Unsynced only when the
\* failure came before any page with nodes was walked.
C31_FailedRebuildKeepsWalkedPages ==
  [][\A r \in Reqs :
       /\ ForcedDocInfoFails(r) => files' = files
       /\ ForcedPageFetchFails(r)
            => /\ GetMeta(files', cache', "last_full_sync") = EmptyTime
               /\ files'[cache'.db].nodes
                    = UNION { PageRows(req[r].doc, page) : page \in DonePages(r) }
               /\ { x.id : x \in files'[cache'.db].pages }
                    = { page.id : page \in DonePages(r) }
               /\ HasNodes(files', cache')
                    <=> \E page \in DonePages(r) : PageRows(req[r].doc, page) # {}]_vars

\* C31 happens: a forced rebuild has failed at the fetch of its second page;
\* the store holds the rows of the first page only and no last_full_sync, and
\* has rows.
C31_Witness ==
  /\ last.kind = "build" /\ ~last.ok /\ last.message = "timeout"
  /\ cache.currentDocumentId = DocA
  /\ GetMeta(files, cache, "last_full_sync") = EmptyTime
  /\ { x.id : x \in files[Db(cache)].pages } = {"p1"}
  /\ { n.figma_id : n \in files[Db(cache)].nodes } = {"n1", "n2"}
  /\ \A r \in Reqs : req[r].pc = "idle"

\* The invalidation flags: in memory, and persisted in each database file.
PersistedFlags(f) ==
  [p \in Paths |-> << f[p].meta.index_invalidated, f[p].meta.invalidation_reason >>]

\* The step is one of request r's build_index: it goes on, or it returns.
BuildSteps(r) ==
  /\ req[r].kind = "build" /\ req'[r] # req[r]
  /\ req'[r].kind = "build" \/ (req'[r].pc = "idle" /\ last'.kind = "build")

\* C32: no step of a build_index request, forced or not, its successful
\* return among them, changes the invalidation flag in memory or the one
\* persisted in any database file; and an ensureIndex call that finds either
\* flag set starts a sync for "document changes detected" whenever it is
\* connected.
C32_BuildKeepsInvalidation ==
  [][\A r \in Reqs :
       /\ BuildSteps(r)
            => /\ indexInvalidated' = indexInvalidated
               /\ PersistedFlags(files') = PersistedFlags(files)
       /\ (EnsureDecides(r) /\ WasInvalidated(files, cache', indexInvalidated))
            => \/ /\ EnsureStartsSync(r)
                  /\ req'[r].syncReason = "document changes detected"
               \/ req'[r].pc = "idle" /\ ~last'.connected]_vars

\* C32 happens: an ensureIndex call starts a sync for the document changes
\* while the last request to return is a successful build_index and the
\* store it wrote has rows and a last_full_sync.
C32_Witness ==
  \E r \in Reqs :
    /\ req[r].kind = "ensure" /\ req[r].pc = "b_docinfo"
    /\ req[r].syncReason = "document changes detected"
    /\ last.kind = "build" /\ last.ok
    /\ indexInvalidated /\ GetMeta(files, cache, "index_invalidated") = "true"
    /\ HasNodes(files, cache)
    /\ GetMeta(files, cache, "last_full_sync").kind = "iso"

\* The Page row x of a store is completely written for document d: the rows
\* of every node of the page's tree are there, and the row's frame and
\* component counts are those of the store.
PageWritten(store, d, x) ==
  \E i \in DOMAIN RemotePages(d) :
    /\ RemotePages(d)[i].id = x.id
    /\ PageRows(d, RemotePages(d)[i]) \subseteq store.nodes
    /\ x.frame_count = Cardinality(NodesOfPageByType(store, x.id, "FRAME"))
    /\ x.component_count = Cardinality(NodesOfPageByType(store, x.id, "COMPONENT"))

\* C33: a sync yields only at its round-trips, so that no state between
\* two steps, which is all that a query, a notification or a second sync can
\* observe, holds a partly written page: every Page row of every store has
\* all the Node rows of its tree and its counts, and every Node row has its
\* Page row.
C33_NoPartlyWrittenPage ==
  \A p \in Paths :
    /\ \A x \in files[p].pages : PageWritten(files[p], DocA, x)
    /\ \A n \in files[p].nodes : \E x \in files[p].pages : x.id = n.page_id

\* C33 happens: one sync is between its two pages, the first one written,
\* while a second sync has yet to walk its first page.
C33_Witness ==
  \E r, q \in Reqs :
    /\ req[r].pc = "b_page" /\ Len(req[r].left) = 1
    /\ req[q].pc = "b_page" /\ Len(req[q].left) = 2
    /\ { x.id : x \in files[Db(cache)].pages } = {"p1"}
    /\ { n.figma_id : n \in files[Db(cache)].nodes } = {"n1", "n2"}

\* A build_index with force_rebuild and no page filter returns success in
\* this step.
ForcedRebuildSucceeds(r) ==
  /\ SyncReturnsSuccess(r)
  /\ req[r].kind = "build" /\ req[r].force /\ ~req[r].filter.given

\* C34: when a forced rebuild with no page filter returns success, the Node
\* rows of the open store are exactly the nodes of the remote document: no
\* node is missing, and none that the document does not have is retrievable.
C34_ForcedRebuildIsExact ==
  [][ \A r \in Reqs : ForcedRebuildSucceeds(r) =>
        { n.figma_id : n \in files'[Db(cache')].nodes }
          = { n.id : n \in RemoteNodes(req[r].doc) } ]_vars

\* Request r's ensureIndex call returns in this step: at once, after its
\* document-info round-trip, or after its sync.
EnsureReturns(r) ==
  /\ \/ req[r].pc = "idle" /\ FirstFree(r) /\ EnsureAnswersAtOnce
     \/ req[r].kind = "ensure" /\ req[r].pc # "idle" /\ req'[r].pc = "idle"
  /\ last'.kind = "ensure"

\* C35: an ensureIndex call returns ready only if the open store has a Node
\* row or the call's own sync succeeded; and a call that returns with the
\* remote source unreachable and no Node row in the store returns not-ready,
\* was in no sync and has written nothing.
C35_ReadyNeedsRowsOrSync ==
  [][ \A r \in Reqs : EnsureReturns(r) =>
        /\ last'.ok => (HasNodes(files', cache') \/ last'.autoBuilt)
        /\ (~last'.connected /\ ~HasNodes(files', cache'))
             => (~last'.ok /\ req[r].pc \notin BuildPcs /\ files' = files) ]_vars

\* The path the cache manager derives for its current document, the default
\* path when it has none.
DerivedPath(c) ==
  IF c.currentDocumentId # NoDoc THEN DbPathFor(c.currentDocumentId) ELSE DefaultDbPath

\* The step is the start of a new process.
ProcessStarts == cache' = NewCacheManager /\ req' = [r \in Reqs |-> IdleSlot] /\ last' = NoResult

\* C36: after every step, an open connection is on the file derived from
\* the current document id, or on the default file if the cache manager has
\* no document id; and a document id once set stays set for the life of the
\* process, so that the default file is open only while none was ever set.
C36_OpenPathIsDerived ==
  [][ /\ cache'.db # NoDb => cache'.db = DerivedPath(cache')
      /\ (cache.currentDocumentId # NoDoc /\ ~ProcessStarts)
           => cache'.currentDocumentId # NoDoc ]_vars

\* C36 happens: a document's file is open after the default file was open
\* and written while no document id was set.
C36_Witness ==
  /\ cache.currentDocumentId = DocA /\ cache.db = DbPathFor(DocA)
  /\ files[DefaultDbPath].meta.index_invalidated = "true"

\* The invalidation flag persisted in the file of document d.
PersistedFlagOf(f, d) == f[DbPathFor(d)].meta.index_invalidated

\* C37: an invalidation recorded while document A is the current one stays
\* persisted in A's store until a sync of A run by ensureIndex succeeds,
\* whatever other document is made current and synced in between; and an
\* ensureIndex call that makes A current while the flag is there starts a
\* sync.
C37_InvalidationKeptAcrossSwitch ==
  [][ /\ (PersistedFlagOf(files, DocA) = "true" /\ PersistedFlagOf(files', DocA) # "true")
           => \E r \in Reqs : /\ SyncReturnsSuccess(r) /\ req[r].kind = "ensure"
                               /\ req[r].doc = DocA
      /\ \A r \in Reqs :
           (/\ EnsureDecides(r) /\ cache'.currentDocumentId = DocA /\ cache' # cache
            /\ PersistedFlagOf(files, DocA) = "true")
             => EnsureStartsSync(r) \/ (req'[r].pc = "idle" /\ ~last'.connected) ]_vars

\* Depth and path of node n of document d as the remote tree gives them,
\* from the node up to its page.
RemotePageIds(d) == { RemotePages(d)[i].id : i \in DOMAIN RemotePages(d) }
RemotePageName(d, id) ==
  LET i == CHOOSE i \in DOMAIN RemotePages(d) : RemotePages(d)[i].id = id
  IN RemotePages(d)[i].name
RemoteParent(d, n) == CHOOSE m \in RemoteNodes(d) : m.id = n.parent
RECURSIVE RemoteDepth(_, _)
RemoteDepth(d, n) ==
  IF n.parent \in RemotePageIds(d) THEN 1 ELSE RemoteDepth(d, RemoteParent(d, n)) + 1
RECURSIVE RemotePath(_, _)
RemotePath(d, n) ==
  IF n.parent \in RemotePageIds(d) THEN << RemotePageName(d, n.parent), "/", n.name >>
  ELSE RemotePath(d, RemoteParent(d, n)) \o << "/", n.name >>

\* C38: when a sync returns success, the row the open store holds for a
\* node of the pages it walked is one, with the depth and the path the
\* remote tree gives: depth 1 and page name / node name for a page's child, the parent's
\* depth + 1 and the parent's path / node name below; whatever path the
\* store held for the node before, under another name of the node or of an
\* ancestor.
C38_DepthAndPathFromTree ==
  [][ \A r \in Reqs : SyncReturnsSuccess(r) =>
        \A n \in WalkedNodes(req[r].doc, req[r].filter) :
          LET rows == { x \in files'[Db(cache')].nodes : x.figma_id = n.id }
          IN /\ Cardinality(rows) <= 1
             /\ \A x \in rows : /\ x.depth = RemoteDepth(req[r].doc, n)
                                 /\ x.path = RemotePath(req[r].doc, n) ]_vars

\* C38 happens: after a sync of the document in which node n1 is named
\* Hero, in the store that held it as Card with a child below, n1's path is
\* rewritten and the child's row, not visited, is as it was.
C38_Witness ==
  /\ last.kind = "build" /\ last.ok
  /\ cache.currentDocumentId = DocB
  /\ \E x \in files[Db(cache)].nodes :
       x.figma_id = "n1" /\ x.depth = 1 /\ x.path = << "Home", "/", "Hero" >>
  /\ \E x \in files[Db(cache)].nodes :
       x.figma_id = "n2" /\ x.depth = 2 /\ x.path = << "Home", "/", "Card", "/", "Title" >>

\* C39: in every state every full-text index of every store has exactly
\* the entries of the rows of its table, one for each row, with the row's
\* current indexed values.
C39_FtsMirrorsTables ==
  \A p \in Paths :
    /\ files[p].nodes_fts = { NodeFts(n) : n \in files[p].nodes }
    /\ files[p].components_fts = { ComponentFts(x) : x \in files[p].components }
    /\ files[p].variables_fts = { VariableFts(v) : v \in files[p].variables }

\* The category of the DaisyUI component a node's name is detected as.
NodeCategory(n) ==
  CASE n.name = "Button" -> "buttons"
    [] n.name = "Card" -> "cards"
    [] n.name = "Hero" -> "layout"
    [] OTHER -> "none"

\* A searchNodes call returns in this step.
SearchReturns == last' # last /\ last'.kind = "searchNodes"

\* C40: a searchNodes call returns at most `limit` rows, 20 when no limit is
\* given; every row it returns has a word, in its name or its path, that
\* starts with one of the pieces of the query between spaces; and every row
\* satisfies each of the type, page and category options that is given.
C40_SearchNodesContract ==
  [][ SearchReturns =>
        LET call == last'.arg
            options == call.options
            pieces == Split(StripQuotes(call.query))
        IN /\ Cardinality(call.rows) <= (IF options.limit.given THEN options.limit.value
                                         ELSE DEFAULT_SEARCH_LIMIT)
           /\ \A n \in call.rows :
                /\ \E i \in DOMAIN pieces : MatchesPrefix(pieces[i], NodeFts(n))
                /\ options.type.given => n.type = options.type.value
                /\ options.pageId.given => n.page_id = options.pageId.value
                /\ options.category.given => NodeCategory(n) = options.category.value
    ]_vars
====
